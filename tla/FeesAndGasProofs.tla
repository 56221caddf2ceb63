-------------------------- MODULE FeesAndGasProofs ---------------------------
(***************************************************************************)
(* What the program adds up before it sends: the fees of the attempts      *)
(* (FeeLadder), for every fee setting the configuration admits, every base *)
(* fee, balance and price, and every number of attempts; the gas of a      *)
(* sponsored batch (SponsoredGas), for every batch size, all wallet        *)
(* limits, payloads and reserves.                                          *)
(***************************************************************************)
EXTENDS FeeLadder, SponsoredGas, SequenceTheorems, TLAPS

-----------------------------------------------------------------------------
(* FeeLadder *)

(* Appending keeps what was there and adds the new last element.           *)
LEMMA Pushed ==
  ASSUME NEW S, NEW s \in Seq(S), NEW x \in S
  PROVE  /\ Append(s, x) \in Seq(S)
         /\ Append(s, x) # <<>>
         /\ Len(Append(s, x)) = Len(s) + 1
         /\ \A i \in 1..Len(s) : Append(s, x)[i] = s[i]
         /\ Append(s, x)[Len(s) + 1] = x
  BY AppendProperties, LenProperties, EmptySeq

LEMMA Singleton ==
  ASSUME NEW S, NEW x \in S
  PROVE  <<x>> \in Seq(S) /\ <<x>> # <<>> /\ Len(<<x>>) = 1 /\ <<x>>[1] = x
  OBVIOUS

LEMMA Indexed ==
  ASSUME NEW S, NEW s \in Seq(S)
  PROVE  /\ Len(s) \in Nat
         /\ s # <<>> <=> Len(s) # 0
         /\ \A i \in 1..Len(s) : s[i] \in S
         /\ DOMAIN s = 1..Len(s)
  BY LenProperties, EmptySeq, ElementOfSeq

-----------------------------------------------------------------------------
(* Multiplying by basis points rounds up: it keeps the order of amounts,   *)
(* and a factor of at least one never lowers an amount.                    *)
LEMMA CeilType ==
  ASSUME NEW v \in Nat, NEW bps \in Nat
  PROVE  MultiplyCeil(v, bps) \in Nat
  <1>1. v * bps \in Nat
    OBVIOUS
  <1> QED BY <1>1 DEF MultiplyCeil, BasisPoints

LEMMA CeilMonotone ==
  ASSUME NEW u \in Nat, NEW v \in Nat, u <= v, NEW bps \in Nat
  PROVE  MultiplyCeil(u, bps) <= MultiplyCeil(v, bps)
  <1>1. u * bps \in Nat /\ v * bps \in Nat /\ u * bps <= v * bps
    <2>1. PICK d \in Nat : v = u + d
      <3>1. v - u \in Nat /\ v = u + (v - u)
        OBVIOUS
      <3> QED BY <3>1
    <2>2. v * bps = u * bps + d * bps /\ d * bps >= 0
      BY <2>1
    <2> QED BY <2>2
  <1> QED BY <1>1 DEF MultiplyCeil, BasisPoints

LEMMA CeilGrows ==
  ASSUME NEW v \in Nat, NEW bps \in Nat, bps >= BasisPoints
  PROVE  MultiplyCeil(v, bps) >= v
  <1>1. v * bps >= v * 10000
    <2>1. PICK d \in Nat : bps = 10000 + d
      <3>1. bps - 10000 \in Nat /\ bps = 10000 + (bps - 10000)
        BY DEF BasisPoints
      <3> QED BY <3>1
    <2>2. v * bps = v * 10000 + v * d /\ v * d >= 0
      BY <2>1
    <2> QED BY <2>2
  <1>2. v * bps \in Nat
    OBVIOUS
  <1> QED BY <1>1, <1>2 DEF MultiplyCeil, BasisPoints

(* AutomaticFeePolicy::replacement: fees that cover their tip are replaced *)
(* by fees that do, and that are not lower.                                *)
LEMMA ReplacementClimbs ==
  ASSUME NEW bump \in Nat, bump >= BasisPoints,
         NEW f \in Fees, f.max >= f.tip
  PROVE  /\ Replacement(bump, f) \in Fees
         /\ Replacement(bump, f).max >= Replacement(bump, f).tip
         /\ Replacement(bump, f).max >= f.max
  <1> DEFINE tip == MultiplyCeil(f.tip, bump)
             buffer == MultiplyCeil(f.max - f.tip, BufferBump(bump))
  <1>1. f.tip \in Nat /\ f.max \in Nat /\ f.max - f.tip \in Nat
    BY DEF Fees
  <1>2. BufferBump(bump) \in Nat /\ BufferBump(bump) >= BasisPoints
    BY DEF BufferBump, Lesser, MaxBaseFeeGrowth, BasisPoints
  <1>3. tip \in Nat /\ tip >= f.tip
    BY <1>1, CeilType, CeilGrows
  <1>4. buffer \in Nat /\ buffer >= f.max - f.tip
    BY <1>1, <1>2, CeilType, CeilGrows
  <1>5. Replacement(bump, f) = [max |-> tip + buffer, tip |-> tip]
    BY DEF Replacement
  <1> HIDE DEF tip, buffer
  <1> QED BY <1>1, <1>3, <1>4, <1>5 DEF Fees

(* What config.rs admits of the settings a run starts with.                *)
LEMMA Settings ==
  ASSUME TypeOK
  PROVE  /\ config.bump \in Nat /\ config.bump >= BasisPoints
         /\ config.multiplier \in Nat
         /\ config.mode # Automatic =>
              config.mode \in Fees /\ config.mode.max >= config.mode.tip
         /\ Tips \subseteq Nat
         /\ base \in Nat
  <1>1. config.bump \in Bumps /\ config.multiplier \in Multipliers
    BY DEF TypeOK
  <1>2. config.mode \in ManualFees \cup {Automatic} /\ base \in Nat
    BY DEF TypeOK
  <1>3. \A b \in Bumps : b \in Nat /\ b >= BasisPoints
    <2>1. BasisPoints \in Nat
      BY DEF BasisPoints
    <2> QED BY <2>1, LadderAssumption
  <1>4. \A m \in Multipliers : m \in Nat
    BY LadderAssumption
  <1>5. \A f \in ManualFees : f \in Fees /\ f.max >= f.tip
    BY LadderAssumption
  <1>6. Tips \subseteq Nat
    BY LadderAssumption
  <1> QED BY <1>1, <1>2, <1>3, <1>4, <1>5, <1>6

(* initial_transaction_fees: manual fees and multiplied estimates alike    *)
(* cover their tip.                                                        *)
LEMMA InitialCovers ==
  ASSUME TypeOK, NEW tip \in Tips
  PROVE  /\ InitialFees(Estimate(tip)) \in Fees
         /\ InitialFees(Estimate(tip)).max >= InitialFees(Estimate(tip)).tip
  <1>1. CASE config.mode # Automatic
    BY <1>1, Settings DEF InitialFees
  <1>2. CASE config.mode = Automatic
    <2>1. config.multiplier \in Nat /\ tip \in Nat /\ base \in Nat
      BY Settings
    <2>2. 2 * base + tip \in Nat /\ tip <= 2 * base + tip
      BY <2>1
    <2>3. /\ MultiplyCeil(tip, config.multiplier) \in Nat
          /\ MultiplyCeil(2 * base + tip, config.multiplier) \in Nat
          /\ MultiplyCeil(tip, config.multiplier)
               <= MultiplyCeil(2 * base + tip, config.multiplier)
      BY <2>1, <2>2, CeilType, CeilMonotone
    <2> QED BY <1>2, <2>3 DEF InitialFees, Estimate, Fees
  <1> QED BY <1>1, <1>2
-----------------------------------------------------------------------------
(* A ladder of one rung, and a ladder with one rung more.                  *)
LEMMA FootOfLadder ==
  ASSUME NEW f \in Fees, f.max >= f.tip, NEW bump,
         NEW s, s = <<f>>
  PROVE  s \in Seq(Fees) /\ s # <<>> /\ f = s[1] /\ Climbed(bump, s)
  <1>1. s \in Seq(Fees) /\ s # <<>> /\ Len(s) = 1 /\ s[1] = f
    BY Singleton
  <1>2. MaxAttempts \in 1..10
    BY LadderAssumption
  <1>3. \A i \in 1..Len(s) : s[i] = f
    BY <1>1
  <1>4. Last(s) = f /\ f.max \in Nat
    BY <1>1 DEF Last, Fees
  <1>5. \A i \in 2..Len(s) : FALSE
    BY <1>1
  <1> QED BY <1>1, <1>2, <1>3, <1>4, <1>5 DEF Climbed

LEMMA NextRung ==
  ASSUME NEW s \in Seq(Fees), s # <<>>, Len(s) < MaxAttempts,
         NEW bump \in Nat, bump >= BasisPoints,
         Climbed(bump, s), ReplacementFits(bump, Last(s)),
         NEW t, t = Append(s, Replacement(bump, Last(s)))
  PROVE  t \in Seq(Fees) /\ t # <<>> /\ t[1] = s[1] /\ Climbed(bump, t)
  <1> DEFINE n == Len(s)
             r == Replacement(bump, Last(s))
  <1>0. /\ \A i \in 1..n : s[i].max >= s[i].tip /\ s[i].max <= Last(s).max
        /\ \A i \in 2..n : /\ ReplacementFits(bump, s[i - 1])
                          /\ s[i] = Replacement(bump, s[i - 1])
    BY DEF Climbed
  <1>1. n \in Nat \ {0} /\ \A i \in 1..n : s[i] \in Fees
    BY Indexed
  <1>2. Last(s) \in Fees /\ Last(s).max >= Last(s).tip /\ Last(s) = s[n]
    <2>1. n \in 1..n
      BY <1>1
    <2> QED BY <1>0, <1>1, <2>1 DEF Last
  <1>3. r \in Fees /\ r.max >= r.tip /\ r.max >= Last(s).max
    BY <1>2, ReplacementClimbs
  <1>4. /\ t \in Seq(Fees) /\ t # <<>> /\ Len(t) = n + 1
        /\ \A i \in 1..n : t[i] = s[i]
        /\ t[n + 1] = r
    BY <1>3, Pushed
  <1>5. Last(t) = r
    BY <1>4 DEF Last
  <1>6. MaxAttempts \in 1..10
    BY LadderAssumption
  <1> HIDE DEF n, r
  <1>7. r.max \in Nat /\ Last(s).max \in Nat /\ \A i \in 1..n : s[i].max \in Nat
    BY <1>1, <1>2, <1>3 DEF Fees
  <1>8. \A i \in 1..Len(t) : t[i].max >= t[i].tip /\ t[i].max <= Last(t).max
    <2>1. TAKE i \in 1..Len(t)
    <2>2. CASE i \in 1..n
      BY <1>0, <1>3, <1>4, <1>5, <1>7, <2>2
    <2>3. CASE i = n + 1
      BY <1>3, <1>4, <1>5, <1>7, <2>3
    <2> QED BY <1>1, <1>4, <2>1, <2>2, <2>3
  <1>9. \A i \in 2..Len(t) : /\ ReplacementFits(bump, t[i - 1])
                           /\ t[i] = Replacement(bump, t[i - 1])
    <2>1. TAKE i \in 2..Len(t)
    <2>2. CASE i \in 2..n
      <3>1. i \in 1..n /\ i - 1 \in 1..n
        BY <1>1, <2>2
      <3> QED BY <1>0, <1>4, <2>2, <3>1
    <2>3. CASE i = n + 1
      <3>1. i - 1 = n /\ n \in 1..n
        BY <1>1, <2>3
      <3>2. t[i - 1] = Last(s) /\ t[i] = r
        BY <1>2, <1>4, <2>3, <3>1
      <3> QED BY <3>2 DEF r
    <2> QED BY <1>1, <1>4, <2>1, <2>2, <2>3
  <1>10. t[1] = s[1] /\ Len(t) <= MaxAttempts
    BY <1>1, <1>4, <1>6 DEF n
  <1> QED BY <1>4, <1>8, <1>9, <1>10 DEF Climbed
-----------------------------------------------------------------------------
(* The settings never change, so neither do the facts about the ladder as  *)
(* long as the ladder is left alone.                                       *)
LEMMA LadderKept ==
  ASSUME LadderIsClimbed, UNCHANGED <<config, ladder>>
  PROVE  LadderIsClimbed'
  BY DEF LadderIsClimbed

LEMMA SnapshotKeepsLadder ==
  ASSUME LadderInv, NEW tip \in Tips, NEW funds \in Balances,
         NEW known \in BOOLEAN, NEW price \in Values,
         TakeSnapshot(tip, funds, known, price)
  PROVE  LadderInv'
  <1>1. TypeOK /\ LadderIsClimbed /\ FeesStartTheLadder
    BY DEF LadderInv
  <1>2. funds \in Nat /\ price \in Nat
    BY LadderAssumption
  <1>3. sent = <<>> /\ sent' = sent
    BY <1>1 DEF TakeSnapshot, FeesStartTheLadder
  <1>4. CASE InitialFeesFit(Estimate(tip))
    <2>1. fees' \in Fees /\ fees'.max >= fees'.tip /\ ladder' = <<fees'>>
      BY <1>1, <1>4, InitialCovers DEF TakeSnapshot
    <2>2. LadderIsClimbed' /\ ladder' \in Seq(Fees) /\ ladder' # <<>>
          /\ fees' = ladder'[1]
      BY <2>1, FootOfLadder DEF LadderIsClimbed
    <2>3. pc' = "gate" /\ config' = config
      BY <1>4 DEF TakeSnapshot
    <2>4. TypeOK'
      BY <1>1, <1>2, <2>1, <2>2, <2>3 DEF TypeOK, TakeSnapshot
    <2> QED BY <1>3, <2>2, <2>3, <2>4
         DEF LadderInv, FeesStartTheLadder, AttemptsFollowTheLadder, NeverStranded
  <1>5. CASE ~InitialFeesFit(Estimate(tip))
    <2>1. pc' = "refused" /\ UNCHANGED <<config, fees, ladder>>
      BY <1>5 DEF TakeSnapshot
    <2>2. TypeOK'
      BY <1>1, <1>2, <2>1 DEF TypeOK, TakeSnapshot
    <2>3. LadderIsClimbed'
      BY <1>1, <2>1, LadderKept
    <2> QED BY <1>3, <2>1, <2>2, <2>3
         DEF LadderInv, FeesStartTheLadder, AttemptsFollowTheLadder, NeverStranded
  <1> QED BY <1>4, <1>5

LEMMA ClimbKeepsLadder ==
  ASSUME LadderInv, ClimbGate
  PROVE  LadderInv'
  <1>1. TypeOK /\ LadderIsClimbed /\ FeesStartTheLadder
    BY DEF LadderInv
  <1>2. /\ sent = <<>> /\ sent' = sent /\ ladder # <<>> /\ fees = ladder[1]
        /\ ladder \in Seq(Fees) /\ Len(ladder) < MaxAttempts
        /\ UNCHANGED <<config, fees>>
    BY <1>1 DEF ClimbGate, FeesStartTheLadder, TypeOK
  <1>3. CASE ReplacementFits(config.bump, Last(ladder))
    <2>1. /\ ladder' = Append(ladder, Replacement(config.bump, Last(ladder)))
          /\ pc = "gate" /\ pc' = pc
      BY <1>3 DEF ClimbGate
    <2>2. config.bump \in Nat /\ config.bump >= BasisPoints
      BY <1>1, Settings
    <2>3. /\ ladder' \in Seq(Fees) /\ ladder' # <<>> /\ ladder'[1] = ladder[1]
          /\ Climbed(config.bump, ladder')
      BY <1>1, <1>2, <1>3, <2>1, <2>2, NextRung DEF LadderIsClimbed
    <2>4. LadderIsClimbed'
      BY <1>2, <2>3 DEF LadderIsClimbed
    <2>5. TypeOK'
      BY <1>1, <1>2, <2>1, <2>3 DEF TypeOK, ClimbGate
    <2> QED BY <1>2, <2>1, <2>3, <2>4, <2>5
         DEF LadderInv, FeesStartTheLadder, AttemptsFollowTheLadder, NeverStranded
  <1>4. CASE ~ReplacementFits(config.bump, Last(ladder))
    <2>1. pc' = "refused" /\ ladder' = ladder
      BY <1>4 DEF ClimbGate
    <2>2. TypeOK'
      BY <1>1, <1>2, <2>1 DEF TypeOK, ClimbGate
    <2>3. LadderIsClimbed'
      BY <1>1, <1>2, <2>1, LadderKept
    <2> QED BY <1>2, <2>1, <2>2, <2>3
         DEF LadderInv, FeesStartTheLadder, AttemptsFollowTheLadder, NeverStranded
  <1> QED BY <1>3, <1>4

LEMMA PassKeepsLadder ==
  ASSUME LadderInv, PassGate
  PROVE  LadderInv'
  <1>1. TypeOK /\ LadderIsClimbed /\ FeesStartTheLadder
    BY DEF LadderInv
  <1>2. /\ sent = <<>> /\ ladder # <<>> /\ fees = ladder[1]
        /\ Len(ladder) = MaxAttempts
        /\ UNCHANGED <<config, fees, ladder, sent, value, balance>>
    BY <1>1 DEF PassGate, GateIsClimbed, FeesStartTheLadder
  <1>3. LadderIsClimbed'
    BY <1>1, <1>2, LadderKept
  <1>4. pc' \in {"hot", "send", "refused"}
    BY DEF PassGate
  <1>5. TypeOK'
    BY <1>1, <1>2, <1>4 DEF TypeOK, PassGate
  <1>6. FeesStartTheLadder'
    BY <1>2, <1>4 DEF FeesStartTheLadder
  <1>7. NeverStranded'
    BY <1>4 DEF NeverStranded
  <1>8. AttemptsFollowTheLadder'
    <2>1. CASE pc' = "send"
      <3>1. MaximumCost(Last(ladder).max, value) <= balance
        BY <2>1 DEF PassGate, GateRung
      <3>2. Len(sent) = 0 /\ Len(sent) + 1 = 1
        BY <1>2
      <3>3. MaxAttempts \in 1..10
        BY LadderAssumption
      <3> QED BY <1>2, <2>1, <3>1, <3>2, <3>3 DEF AttemptsFollowTheLadder, Last
    <2>2. CASE pc' # "send"
      BY <1>4, <2>2 DEF AttemptsFollowTheLadder
    <2> QED BY <2>1, <2>2
  <1> QED BY <1>3, <1>5, <1>6, <1>7, <1>8 DEF LadderInv

LEMMA ActionKeepsLadder ==
  ASSUME LadderInv, NEW price \in Values, RequestAction(price)
  PROVE  LadderInv'
  <1>1. TypeOK /\ LadderIsClimbed /\ FeesStartTheLadder
    BY DEF LadderInv
  <1>2. price \in Nat
    BY LadderAssumption
  <1>3. /\ sent = <<>> /\ ladder # <<>> /\ fees = ladder[1]
        /\ fees \in Fees /\ ladder \in Seq(Fees)
        /\ UNCHANGED <<config, fees, sent>>
    BY <1>1 DEF RequestAction, FeesStartTheLadder, TypeOK
  <1>4. CASE priced /\ price # value
    <2>1. pc' = "refused" /\ UNCHANGED <<gate, ladder, value>>
      BY <1>4 DEF RequestAction
    <2>2. TypeOK'
      BY <1>1, <1>3, <2>1 DEF TypeOK, RequestAction
    <2>3. LadderIsClimbed'
      BY <1>1, <1>3, <2>1, LadderKept
    <2> QED BY <1>3, <2>1, <2>2, <2>3
         DEF LadderInv, FeesStartTheLadder, AttemptsFollowTheLadder, NeverStranded
  <1>5. CASE ~(priced /\ price # value)
    <2>1. pc' = "gate" /\ gate' = 2 /\ value' = price /\ ladder' = <<fees>>
      BY <1>5 DEF RequestAction
    <2>2. fees.max >= fees.tip
      <3>1. 1 \in 1..Len(ladder)
        BY <1>3, Indexed
      <3> QED BY <1>1, <1>3, <3>1 DEF LadderIsClimbed, Climbed
    <2>3. LadderIsClimbed' /\ ladder' \in Seq(Fees) /\ ladder' # <<>>
          /\ fees = ladder'[1]
      BY <1>3, <2>1, <2>2, FootOfLadder DEF LadderIsClimbed
    <2>4. TypeOK'
      BY <1>1, <1>2, <1>3, <2>1, <2>3 DEF TypeOK, RequestAction
    <2> QED BY <1>3, <2>1, <2>3, <2>4
         DEF LadderInv, FeesStartTheLadder, AttemptsFollowTheLadder, NeverStranded
  <1> QED BY <1>4, <1>5

LEMMA SendKeepsLadder ==
  ASSUME LadderInv, NEW answered \in BOOLEAN, Send(answered)
  PROVE  LadderInv'
  <1>1. TypeOK /\ LadderIsClimbed
    BY DEF LadderInv
  <1>2. /\ Len(ladder) = MaxAttempts
        /\ MaximumCost(Last(ladder).max, value) <= balance
        /\ \A i \in 1..Len(sent) :
             sent[i].max = ladder[i].max /\ sent[i].tip = ladder[i].tip
        /\ Len(sent) < MaxAttempts /\ fees = ladder[Len(sent) + 1]
    BY DEF LadderInv, AttemptsFollowTheLadder, Send
  <1>3. pc' \in {"waiting", "stopped"} /\ (pc' = "waiting" \/ pc' = "stopped")
    BY DEF Send
  <1>4. UNCHANGED <<config, fees, ladder, value, balance>>
    BY DEF Send
  <1> DEFINE A == [max: Nat, tip: Nat, base: Nat, blocks: Nat]
             a == [max |-> fees.max, tip |-> fees.tip,
                   base |-> base, blocks |-> blocks]
             n == Len(sent)
  <1>5. sent \in Seq(A) /\ a \in A /\ sent' = Append(sent, a)
        /\ a.max = fees.max /\ a.tip = fees.tip
    BY <1>1 DEF TypeOK, Fees, Send
  <1> HIDE DEF A, a
  <1>6. /\ sent' \in Seq(A) /\ sent' # <<>> /\ Len(sent') = n + 1
        /\ \A i \in 1..n : sent'[i] = sent[i]
        /\ sent'[n + 1] = a
    BY <1>5, Pushed
  <1>7. n \in Nat /\ MaxAttempts \in 1..10
    BY <1>5, Indexed, LadderAssumption
  <1>8. LadderIsClimbed'
    BY <1>1, <1>4, LadderKept
  <1>9. TypeOK'
    BY <1>1, <1>3, <1>4, <1>6 DEF TypeOK, Send, A
  <1>10. \A i \in 1..Len(sent') :
           sent'[i].max = ladder[i].max /\ sent'[i].tip = ladder[i].tip
    <2> TAKE i \in 1..Len(sent')
    <2>1. CASE i \in 1..n
      BY <1>2, <1>6, <2>1
    <2>2. CASE i = n + 1
      BY <1>2, <1>5, <1>6, <2>2
    <2> QED BY <1>6, <1>7, <2>1, <2>2
  <1>11. AttemptsFollowTheLadder'
    <2>1. Len(sent') <= MaxAttempts /\ fees = ladder[Len(sent')]
      BY <1>2, <1>6, <1>7
    <2> QED BY <1>2, <1>3, <1>4, <1>6, <1>10, <2>1
         DEF AttemptsFollowTheLadder, MaximumCost, Last
  <1>12. FeesStartTheLadder' /\ NeverStranded'
    BY <1>3 DEF FeesStartTheLadder, NeverStranded
  <1> QED BY <1>8, <1>9, <1>11, <1>12 DEF LadderInv

LEMMA TimeOutKeepsLadder ==
  ASSUME LadderInv, TimeOut
  PROVE  LadderInv'
  <1>1. TypeOK /\ LadderIsClimbed
    BY DEF LadderInv
  <1>2. /\ Len(ladder) = MaxAttempts
        /\ MaximumCost(Last(ladder).max, value) <= balance
        /\ Len(sent) <= MaxAttempts
        /\ \A i \in 1..Len(sent) :
             sent[i].max = ladder[i].max /\ sent[i].tip = ladder[i].tip
        /\ sent # <<>> /\ fees = ladder[Len(sent)]
    BY DEF LadderInv, AttemptsFollowTheLadder, TimeOut
  <1>3. UNCHANGED <<config, ladder, sent, value, balance>>
    BY DEF TimeOut
  <1>4. LadderIsClimbed'
    BY <1>1, <1>3, LadderKept
  <1>5. Len(sent) \in Nat \ {0} /\ MaxAttempts \in 1..10
    BY <1>1, <1>2, Indexed, LadderAssumption DEF TypeOK
  <1>6. CASE Len(sent) >= MaxAttempts
    <2>1. pc' = "stopped" /\ fees' = fees
      BY <1>6 DEF TimeOut
    <2>2. TypeOK'
      BY <1>1, <1>3, <2>1 DEF TypeOK, TimeOut
    <2>3. AttemptsFollowTheLadder'
      BY <1>2, <1>3, <2>1 DEF AttemptsFollowTheLadder, MaximumCost, Last
    <2> QED BY <1>4, <2>1, <2>2, <2>3
         DEF LadderInv, FeesStartTheLadder, NeverStranded
  <1>7. CASE Len(sent) < MaxAttempts
    <2> DEFINE n == Len(sent)
    <2>1. n + 1 \in 2..Len(ladder) /\ n \in 1..Len(ladder) /\ (n + 1) - 1 = n
      BY <1>2, <1>5, <1>7
    <2>2. /\ ReplacementFits(config.bump, fees)
          /\ ladder[n + 1] = Replacement(config.bump, fees)
      <3>1. /\ ReplacementFits(config.bump, ladder[(n + 1) - 1])
            /\ ladder[n + 1] = Replacement(config.bump, ladder[(n + 1) - 1])
        BY <1>1, <2>1 DEF LadderIsClimbed, Climbed
      <3> QED BY <1>2, <2>1, <3>1
    <2>3. pc' = "send" /\ fees' = ladder[n + 1]
      BY <1>5, <1>7, <2>2 DEF TimeOut
    <2>4. fees' \in Fees
      <3>1. ladder \in Seq(Fees)
        BY <1>1 DEF TypeOK
      <3>2. n + 1 \in 1..Len(ladder)
        BY <1>5, <2>1
      <3> QED BY <2>3, <3>1, <3>2, Indexed
    <2>5. TypeOK'
      BY <1>1, <1>3, <2>3, <2>4 DEF TypeOK, TimeOut
    <2>6. AttemptsFollowTheLadder'
      BY <1>2, <1>3, <1>7, <2>3 DEF AttemptsFollowTheLadder, MaximumCost, Last
    <2> QED BY <1>4, <2>3, <2>5, <2>6
         DEF LadderInv, FeesStartTheLadder, NeverStranded
  <1> QED BY <1>5, <1>6, <1>7

(* Steps that leave fees, ladder and attempts alone and at most end the    *)
(* run or move the base fee.                                               *)
LEMMA BlockKeepsType ==
  ASSUME TypeOK, NewBlock
  PROVE  base' \in Nat /\ blocks' \in Nat /\ base' <= GrownBase(base)
  <1>1. base \in Nat /\ blocks \in Nat
    BY DEF TypeOK
  <1>2. base - base \div 8 \in Nat /\ GrownBase(base) \in Nat
    BY <1>1 DEF GrownBase, Larger
  <1>3. base' \in (base - base \div 8)..GrownBase(base) /\ blocks' = blocks + 1
    BY DEF NewBlock
  <1> QED BY <1>1, <1>2, <1>3

LEMMA OthersKeepLadder ==
  ASSUME LadderInv,
         GiveUp \/ Abandon \/ Receipt \/ NewBlock \/ UNCHANGED vars
  PROVE  LadderInv'
  <1>1. /\ TypeOK /\ LadderIsClimbed /\ FeesStartTheLadder
        /\ AttemptsFollowTheLadder /\ NeverStranded
    BY DEF LadderInv
  <1>2. UNCHANGED <<config, flow, gate, fees, ladder, balance, priced, value, sent>>
    BY DEF GiveUp, Abandon, Receipt, NewBlock, vars
  <1>3. LadderIsClimbed'
    BY <1>1, <1>2, LadderKept
  <1>4. \/ pc' = pc
        \/ pc = "hot" /\ pc' = "refused"
        \/ pc \in {"send", "waiting"} /\ pc' \in {"mined", "stopped"}
    BY DEF GiveUp, Abandon, Receipt, NewBlock, vars
  <1>5. base' \in Nat /\ blocks' \in Nat
    <2>1. CASE NewBlock
      BY <1>1, <2>1, BlockKeepsType
    <2>2. CASE GiveUp \/ Abandon \/ Receipt \/ UNCHANGED vars
      BY <1>1, <2>2 DEF TypeOK, GiveUp, Abandon, Receipt, vars
    <2> QED BY <2>1, <2>2
  <1>6. TypeOK'
    BY <1>1, <1>2, <1>4, <1>5 DEF TypeOK
  <1>7. FeesStartTheLadder' /\ NeverStranded'
    BY <1>1, <1>2, <1>4 DEF FeesStartTheLadder, NeverStranded
  <1>8. AttemptsFollowTheLadder'
    <2>1. CASE pc' \in {"send", "waiting", "mined", "stopped"}
      <3>1. pc \in {"send", "waiting", "mined", "stopped"}
        BY <1>4, <2>1
      <3>2. /\ Len(ladder) = MaxAttempts
            /\ MaximumCost(Last(ladder).max, value) <= balance
            /\ Len(sent) <= MaxAttempts
            /\ \A i \in 1..Len(sent) :
                 sent[i].max = ladder[i].max /\ sent[i].tip = ladder[i].tip
        BY <1>1, <3>1 DEF AttemptsFollowTheLadder
      <3>3. /\ pc' = "send" => Len(sent) < MaxAttempts /\ fees = ladder[Len(sent) + 1]
            /\ pc' = "waiting" => sent # <<>> /\ fees = ladder[Len(sent)]
        BY <1>1, <1>4 DEF AttemptsFollowTheLadder
      <3> QED BY <1>2, <3>2, <3>3 DEF AttemptsFollowTheLadder, MaximumCost, Last
    <2>2. CASE pc' \notin {"send", "waiting", "mined", "stopped"}
      BY <2>2 DEF AttemptsFollowTheLadder
    <2> QED BY <2>1, <2>2
  <1> QED BY <1>3, <1>6, <1>7, <1>8 DEF LadderInv

LEMMA InitLadder == Init => LadderInv
  <1> SUFFICES ASSUME Init PROVE LadderInv
    OBVIOUS
  <1>1. <<>> \in Seq(Fees) /\ Len(<<>>) = 0
        /\ <<>> \in Seq([max: Nat, tip: Nat, base: Nat, blocks: Nat])
    OBVIOUS
  <1>2. MaxAttempts \in 1..10 /\ Bases \subseteq Nat
    BY LadderAssumption
  <1>3. TypeOK
    BY <1>1, <1>2 DEF Init, TypeOK, Fees
  <1>4. LadderIsClimbed
    BY <1>1, <1>2 DEF Init, LadderIsClimbed, Climbed
  <1> QED BY <1>3, <1>4 DEF Init, LadderInv, FeesStartTheLadder,
                            AttemptsFollowTheLadder, NeverStranded

LEMMA NextLadder == LadderInv /\ [Next]_vars => LadderInv'
  BY SnapshotKeepsLadder, ClimbKeepsLadder, PassKeepsLadder, ActionKeepsLadder,
     SendKeepsLadder, TimeOutKeepsLadder, OthersKeepLadder DEF Next

(* The rungs below the top cost no more than the top.                      *)
LEMMA RungsAreFunded == LadderInv => EveryAttemptIsFunded
  <1> SUFFICES ASSUME LadderInv, NEW i \in DOMAIN sent
               PROVE  MaximumCost(sent[i].max, value) <= balance
    BY DEF EveryAttemptIsFunded
  <1>1. TypeOK /\ LadderIsClimbed /\ FeesStartTheLadder
        /\ AttemptsFollowTheLadder /\ NeverStranded
    BY DEF LadderInv
  <1> DEFINE A == [max: Nat, tip: Nat, base: Nat, blocks: Nat]
  <1>2. sent # <<>> /\ i \in 1..Len(sent) /\ Len(sent) \in Nat
    <2>1. sent \in Seq(A)
      BY <1>1 DEF TypeOK
    <2> HIDE DEF A
    <2>2. i \in 1..Len(sent) /\ Len(sent) \in Nat
      BY <2>1, Indexed
    <2>3. Len(sent) # 0
      BY <2>2
    <2> QED BY <2>1, <2>2, <2>3, Indexed
  <1>3. pc \in {"send", "waiting", "mined", "stopped"}
    BY <1>1, <1>2 DEF TypeOK, FeesStartTheLadder, NeverStranded
  <1>4. /\ Len(ladder) = MaxAttempts /\ Len(sent) <= MaxAttempts
        /\ MaximumCost(Last(ladder).max, value) <= balance
        /\ sent[i].max = ladder[i].max
    BY <1>1, <1>2, <1>3 DEF AttemptsFollowTheLadder
  <1>5. MaxAttempts \in 1..10 /\ GasLimit \in Nat
    BY LadderAssumption
  <1>6. i \in 1..Len(ladder) /\ Len(ladder) \in 1..Len(ladder)
    BY <1>2, <1>4, <1>5
  <1>7. ladder[i].max <= Last(ladder).max
    BY <1>1, <1>6 DEF LadderIsClimbed, Climbed
  <1>8. ladder[i] \in Fees /\ Last(ladder) \in Fees
    BY <1>1, <1>6, Indexed DEF TypeOK, Last
  <1> DEFINE low == ladder[i].max
             top == Last(ladder).max
  <1>9. low \in Nat /\ top \in Nat /\ low <= top
    BY <1>7, <1>8 DEF Fees
  <1>10. GasLimit * low <= GasLimit * top
    <2> HIDE DEF low, top
    <2>1. PICK d \in Nat : top = low + d
      <3>1. top - low \in Nat /\ top = low + (top - low)
        BY <1>9
      <3> QED BY <3>1
    <2>2. GasLimit * top = GasLimit * low + GasLimit * d
      BY <1>5, <1>9, <2>1
    <2>3. GasLimit * low \in Nat /\ GasLimit * d \in Nat
      BY <1>5, <1>9, <2>1
    <2> QED BY <2>2, <2>3
  <1>11. value \in Nat /\ balance \in Nat
    BY <1>1 DEF TypeOK
  <1>12. GasLimit * low \in Nat /\ GasLimit * top \in Nat
    BY <1>5, <1>9
  <1>13. GasLimit * top + value <= balance
    BY <1>4 DEF MaximumCost
  <1>14. MaximumCost(sent[i].max, value) = GasLimit * low + value
    BY <1>4 DEF MaximumCost
  <1> HIDE DEF low, top
  <1> QED BY <1>10, <1>11, <1>12, <1>13, <1>14

(* Fees, ladders and attempts keep their types: in particular no           *)
(* replacement subtracts a tip from fees below it.                         *)
THEOREM LadderTypeCorrect == Spec => []TypeOK
  <1>1. LadderInv => TypeOK
    BY DEF LadderInv
  <1> QED BY <1>1, InitLadder, NextLadder, PTL DEF Spec

(* What a funding gate lets through is paid for to the last replacement,   *)
(* whatever the fee settings, the price and the number of attempts.        *)
THEOREM Funded == Spec => []EveryAttemptIsFunded
  BY InitLadder, NextLadder, RungsAreFunded, PTL DEF Spec

(* No transaction that was broadcast is left without its replacements by   *)
(* an overflow: the gate has met it first.                                 *)
THEOREM Unstranded == Spec => []NeverStranded
  <1>1. LadderInv => NeverStranded
    BY DEF LadderInv
  <1> QED BY <1>1, InitLadder, NextLadder, PTL DEF Spec
-----------------------------------------------------------------------------
(* One growth of the buffer covers one block's growth of the base fee: it  *)
(* is rounded up where the chain rounds down.                              *)
LEMMA BufferCoversBlock ==
  ASSUME NEW b \in Nat, b > 0, NEW x \in Nat, x >= b
  PROVE  MultiplyCeil(x, MaxBaseFeeGrowth) >= GrownBase(b)
  <1> DEFINE g == GrownBase(b)
  <1>1. g \in Nat /\ (8 * g <= 9 * b \/ g = b + 1)
    BY DEF GrownBase, Larger
  <1> HIDE DEF g
  <1>2. 10000 * g <= 11250 * x + 9999
    <2>1. CASE 8 * g <= 9 * b
      BY <1>1, <2>1
    <2>2. CASE g = b + 1
      BY <1>1, <2>2
    <2> QED BY <1>1, <2>1, <2>2
  <1>3. (x * 11250 + 9999) \div 10000 >= g
    BY <1>1, <1>2
  <1> QED BY <1>3 DEF MultiplyCeil, BasisPoints, MaxBaseFeeGrowth, g

LEMMA ReplacementBuffer ==
  ASSUME NEW bump \in Nat, bump >= MaxBaseFeeGrowth, NEW f \in Fees, f.max >= f.tip,
         bump >= BasisPoints
  PROVE  /\ Buffer(Replacement(bump, f)) = MultiplyCeil(Buffer(f), MaxBaseFeeGrowth)
         /\ Buffer(f) \in Nat
  <1>1. BufferBump(bump) = MaxBaseFeeGrowth /\ MaxBaseFeeGrowth \in Nat
    BY DEF BufferBump, Lesser, MaxBaseFeeGrowth
  <1>2. f.tip \in Nat /\ f.max \in Nat /\ f.max - f.tip \in Nat
    BY DEF Fees
  <1> DEFINE tip == MultiplyCeil(f.tip, bump)
             grown == MultiplyCeil(f.max - f.tip, BufferBump(bump))
  <1>3. tip \in Nat /\ grown \in Nat
    BY <1>1, <1>2, CeilType
  <1>4. Replacement(bump, f) = [max |-> tip + grown, tip |-> tip]
    BY DEF Replacement
  <1>5. grown = MultiplyCeil(f.max - f.tip, MaxBaseFeeGrowth)
    BY <1>1
  <1> HIDE DEF tip, grown
  <1> QED BY <1>2, <1>3, <1>4, <1>5 DEF Buffer

PaceInv == LadderInv /\ BaseSinceLastAttempt /\ ReplacementsKeepPace

(* A new attempt is compared with the one before it; the older ones keep   *)
(* their place.                                                            *)
LEMMA SendKeepsPace ==
  ASSUME PaceInv, NEW answered \in BOOLEAN, Send(answered)
  PROVE  ReplacementsKeepPace' /\ BaseSinceLastAttempt'
  <1>1. TypeOK /\ LadderIsClimbed /\ ReplacementsKeepPace
    BY DEF PaceInv, LadderInv
  <1> DEFINE A == [max: Nat, tip: Nat, base: Nat, blocks: Nat]
             a == [max |-> fees.max, tip |-> fees.tip,
                   base |-> base, blocks |-> blocks]
             n == Len(sent)
  <1>2. sent \in Seq(A) /\ a \in A /\ sent' = Append(sent, a)
    BY <1>1 DEF TypeOK, Fees, Send
  <1>3. /\ a.max = fees.max /\ a.tip = fees.tip /\ a.base = base
        /\ a.blocks = blocks /\ base' = base /\ blocks' = 0 /\ config' = config
    BY DEF Send
  <1> HIDE DEF A, a
  <1>4. /\ sent' \in Seq(A) /\ sent' # <<>> /\ Len(sent') = n + 1
        /\ \A i \in 1..n : sent'[i] = sent[i]
        /\ sent'[n + 1] = a
    BY <1>2, Pushed
  <1>5. n \in Nat
    BY <1>2, Indexed
  <1>6. /\ Len(ladder) = MaxAttempts /\ n < MaxAttempts /\ fees = ladder[n + 1]
        /\ \A i \in 1..n : sent[i].max = ladder[i].max /\ sent[i].tip = ladder[i].tip
    BY DEF PaceInv, LadderInv, AttemptsFollowTheLadder, Send
  <1>7. ASSUME n >= 1, config.bump >= MaxBaseFeeGrowth, blocks <= 1,
               Buffer(sent[n]) >= sent[n].base, sent[n].base > 0
        PROVE  Buffer(fees) >= base
    <2>1. MaxAttempts \in 1..10
      BY LadderAssumption
    <2>2. n + 1 \in 2..Len(ladder) /\ n \in 1..Len(ladder) /\ (n + 1) - 1 = n
          /\ n \in 1..n
      BY <1>5, <1>6, <1>7, <2>1
    <2>3. ladder[n] \in Fees
      <3>1. ladder \in Seq(Fees)
        BY <1>1 DEF TypeOK
      <3> QED BY <2>2, <3>1, Indexed
    <2>4. /\ ladder[n].max >= ladder[n].tip
          /\ ladder[n + 1] = Replacement(config.bump, ladder[(n + 1) - 1])
      BY <1>1, <2>2 DEF LadderIsClimbed, Climbed
    <2>5. fees = Replacement(config.bump, ladder[n])
      BY <1>6, <2>2, <2>4
    <2>6. config.bump \in Nat /\ config.bump >= BasisPoints
      BY <1>1, Settings
    <2>7. Buffer(fees) = MultiplyCeil(Buffer(ladder[n]), MaxBaseFeeGrowth)
          /\ Buffer(ladder[n]) \in Nat
      BY <1>7, <2>3, <2>4, <2>5, <2>6, ReplacementBuffer
    <2>8. Buffer(ladder[n]) = Buffer(sent[n])
      BY <1>6, <2>2 DEF Buffer
    <2>9. sent[n] \in A /\ sent[n].base \in Nat
      <3>1. sent[n] \in A
        BY <1>2, <2>2, Indexed
      <3> QED BY <3>1 DEF A
    <2>10. Buffer(fees) >= GrownBase(sent[n].base)
      BY <1>7, <2>7, <2>8, <2>9, BufferCoversBlock
    <2>11. /\ blocks = 0 => base = sent[n].base
           /\ blocks = 1 => base <= GrownBase(sent[n].base)
      <3>1. pc = "send" /\ sent # <<>>
        BY <1>2, <1>7, Indexed DEF Send
      <3> QED BY <3>1 DEF PaceInv, BaseSinceLastAttempt, Last
    <2>12. blocks \in Nat /\ base \in Nat
      BY <1>1 DEF TypeOK
    <2>13. GrownBase(sent[n].base) \in Nat
           /\ GrownBase(sent[n].base) >= sent[n].base
      BY <2>9 DEF GrownBase, Larger
    <2>14. base <= GrownBase(sent[n].base)
      BY <1>7, <2>9, <2>11, <2>12, <2>13
    <2>15. Buffer(fees) \in Nat
      <3>1. MaxBaseFeeGrowth \in Nat
        BY DEF MaxBaseFeeGrowth
      <3> QED BY <2>7, <3>1, CeilType
    <2> QED BY <2>10, <2>12, <2>13, <2>14, <2>15
  <1>8. ReplacementsKeepPace'
    <2> SUFFICES ASSUME NEW i \in 2..Len(sent'),
                        config.bump >= MaxBaseFeeGrowth, sent'[i].blocks <= 1,
                        Buffer(sent'[i - 1]) >= sent'[i - 1].base,
                        sent'[i - 1].base > 0
                 PROVE  Buffer(sent'[i]) >= sent'[i].base
      BY <1>3 DEF ReplacementsKeepPace, Buffer
    <2>1. CASE i \in 2..n
      <3>1. i \in 1..n /\ i - 1 \in 1..n
        BY <1>5, <2>1
      <3>2. sent'[i] = sent[i] /\ sent'[i - 1] = sent[i - 1]
        BY <1>4, <3>1
      <3> QED BY <1>1, <2>1, <3>2 DEF ReplacementsKeepPace
    <2>2. CASE i = n + 1
      <3>1. i - 1 = n /\ n \in 1..n /\ n >= 1
        BY <1>4, <1>5, <2>2
      <3>2. sent'[i] = a /\ sent'[i - 1] = sent[n]
        BY <1>4, <2>2, <3>1
      <3>3. Buffer(a) = Buffer(fees)
        BY <1>3 DEF Buffer
      <3>4. Buffer(sent[n]) >= sent[n].base /\ sent[n].base > 0 /\ blocks <= 1
        BY <1>3, <3>2
      <3> QED BY <1>3, <1>7, <3>1, <3>2, <3>3, <3>4
    <2> QED BY <1>4, <1>5, <2>1, <2>2
  <1>9. BaseSinceLastAttempt'
    <2>1. Last(sent')= a
      BY <1>4 DEF Last
    <2> QED BY <1>3, <2>1 DEF BaseSinceLastAttempt, Last
  <1> QED BY <1>8, <1>9

LEMMA OthersKeepPace ==
  ASSUME PaceInv, [Next]_vars, ~ \E answered \in BOOLEAN : Send(answered)
  PROVE  ReplacementsKeepPace' /\ BaseSinceLastAttempt'
  <1>1. /\ TypeOK /\ FeesStartTheLadder
        /\ ReplacementsKeepPace /\ BaseSinceLastAttempt
    BY DEF PaceInv, LadderInv
  <1>2. config' = config /\ sent' = sent
    BY DEF Next, TakeSnapshot, ClimbGate, PassGate, RequestAction, GiveUp, Abandon,
           Receipt, TimeOut, NewBlock, vars
  <1>3. ReplacementsKeepPace'
    BY <1>1, <1>2 DEF ReplacementsKeepPace, Buffer
  <1>4. ASSUME sent # <<>> PROVE BaseSinceLastAttempt'
    <2>1. pc \notin {"snapshot", "gate", "hot"}
      BY <1>1, <1>4 DEF FeesStartTheLadder
    <2>2. ASSUME ~NewBlock
          PROVE  /\ base' = base /\ blocks' = blocks
                 /\ pc' \in {"send", "waiting"} => pc \in {"send", "waiting"}
      BY <2>1, <2>2 DEF Next, TakeSnapshot, ClimbGate, PassGate, RequestAction,
         GiveUp, Abandon, Receipt, TimeOut, vars
    <2>3. CASE NewBlock
      <3>1. /\ pc \in {"send", "waiting"} /\ blocks' = blocks + 1
            /\ blocks \in Nat /\ base' <= GrownBase(base)
        BY <1>1, <2>1, <2>3, BlockKeepsType DEF NewBlock, TypeOK
      <3>2. blocks = 0 => base = Last(sent).base
        BY <1>1, <1>4, <3>1 DEF BaseSinceLastAttempt
      <3>3. blocks' # 0 /\ (blocks' = 1 => blocks = 0)
        BY <3>1
      <3> QED BY <1>2, <3>1, <3>2, <3>3 DEF BaseSinceLastAttempt, Last
    <2>4. CASE ~NewBlock
      BY <1>1, <1>2, <2>2, <2>4 DEF BaseSinceLastAttempt, Last
    <2> QED BY <2>3, <2>4
  <1>5. sent = <<>> => BaseSinceLastAttempt'
    BY <1>2 DEF BaseSinceLastAttempt
  <1> QED BY <1>3, <1>4, <1>5

LEMMA NextPace == PaceInv /\ [Next]_vars => PaceInv'
  <1> SUFFICES ASSUME PaceInv, [Next]_vars PROVE PaceInv'
    OBVIOUS
  <1>1. LadderInv'
    BY NextLadder DEF PaceInv
  <1>2. CASE \E answered \in BOOLEAN : Send(answered)
    BY <1>1, <1>2, SendKeepsPace DEF PaceInv
  <1>3. CASE ~ \E answered \in BOOLEAN : Send(answered)
    BY <1>1, <1>3, OthersKeepPace DEF PaceInv
  <1> QED BY <1>2, <1>3

(* With the bump at the protocol's growth or above, replacements sent      *)
(* within one block of each other never fall behind the base fee.          *)
THEOREM KeepsPace == Spec => []ReplacementsKeepPace
  <1>1. Init => PaceInv
    <2>1. Init => sent = <<>> /\ pc = "snapshot"
      BY DEF Init
    <2>2. sent = <<>> => ReplacementsKeepPace
      BY DEF ReplacementsKeepPace
    <2> QED BY <2>1, <2>2, InitLadder DEF PaceInv, BaseSinceLastAttempt
  <1>2. PaceInv => ReplacementsKeepPace
    BY DEF PaceInv
  <1> QED BY <1>1, <1>2, NextPace, PTL DEF Spec
-----------------------------------------------------------------------------
(***************************************************************************)
(* SponsoredGas: what the client adds up is what the dispatcher needs.     *)
(* tally remembers gas_limit before each operation, so what is still owed  *)
(* to the wallets from the i-th on is the difference to the final limit;   *)
(* gas and spent never fall below that and the reserves not yet earned.    *)
(***************************************************************************)
F == tally["final"]

(* What the sums and the encoded bytes keep while they grow.               *)
Types ==
  /\ step \in {"encode", "sum", "dispatch", "done"}
  /\ index \in 1..(Count + 1)
  /\ bytes \in Nat
  /\ calldata \in [Estimates -> Nat]
  /\ gas \in Nat /\ spent \in Nat
  /\ granted \in [Operations -> Nat]

Encoded ==
  step = "encode" =>
    /\ tally = [e \in Estimates |-> [k \in 1..1 |-> 0]]
    /\ bytes <= EXECUTE_BATCH_FIXED_CALLDATA_BYTES + (index - 1) * MAX_ENCODED_OPERATION_BYTES

Summed(n) ==
  /\ tally \in [Estimates -> [1..n -> Nat]]
  /\ F[1] = Base(calldata["final"])
  /\ \A k \in 1..(n - 1) : F[k + 1] = F[k] + Own(k)
  /\ \A k \in 1..n : F[n] >= F[k] + (n - k) * PER_OPERATION_DISPATCH_GAS_RESERVE
  /\ F[n] <= tally["provisional"][n]
  /\ tally["provisional"][n] <= tally["setup"][n]

Spending ==
  /\ Summed(Count + 1)
  /\ gas + spent >= DISPATCHER_BASE_GAS_RESERVE + FINAL_BATCH_GAS_RESERVE
                    + (F[Count + 1] - F[index])
                    + (index - 1) * PER_OPERATION_DISPATCH_GAS_RESERVE
  /\ WithinReserves(index - 1, spent)
  /\ \A i \in 1..(index - 1) : granted[i] = WalletGas[i]

GasInv ==
  /\ Types
  /\ Encoded
  /\ step = "sum" => Summed(index)
  /\ step \in {"dispatch", "done"} => Spending
  /\ step = "done" => index = Count + 1

-----------------------------------------------------------------------------
(* A call is given its limit when the check of the dispatcher passes.      *)
LEMMA BufferSuffices ==
  ASSUME NEW L \in Nat, NEW g \in Nat, g >= L + Eip150Buffer(L)
  PROVE  g - g \div 64 >= L
BY DEF Eip150Buffer

LEMMA OwnCovers ==
  ASSUME NEW i \in Operations
  PROVE  /\ WalletGas[i] \in Nat /\ Eip150Buffer(WalletGas[i]) \in Nat
         /\ Own(i) \in Nat
         /\ Own(i) = WalletGas[i] + Eip150Buffer(WalletGas[i]) + 30000
BY SponsoredGasAssumption DEF Own, Eip150Buffer, PER_OPERATION_DISPATCH_GAS_RESERVE

LEMMA EncodedIsBounded ==
  ASSUME NEW i \in Operations
  PROVE  EncodedBytes(i) \in Nat /\ EncodedBytes(i) <= MAX_ENCODED_OPERATION_BYTES
<1>1. Payload[i] \in Nat /\ Payload[i] <= 16384
  BY SponsoredGasAssumption DEF MAX_MINT_CALLDATA_SIZE
<1>2. ASSUME NEW p \in Nat, p <= 16384
      PROVE  448 + 32 * ((p + 31) \div 32) \in Nat /\ 448 + 32 * ((p + 31) \div 32) <= 16832
  BY <1>2
<1> QED
  BY <1>1, <1>2 DEF EncodedBytes, Words, MAX_ENCODED_OPERATION_BYTES

LEMMA InitGas == GasInit => GasInv
<1> SUFFICES ASSUME GasInit PROVE GasInv
  OBVIOUS
<1>1. Types
  BY SponsoredGasAssumption
  DEF GasInit, Types, EXECUTE_BATCH_FIXED_CALLDATA_BYTES, Operations
<1>2. Encoded
  BY DEF GasInit, Encoded, EXECUTE_BATCH_FIXED_CALLDATA_BYTES, MAX_ENCODED_OPERATION_BYTES
<1> QED
  BY <1>1, <1>2 DEF GasInit, GasInv

-----------------------------------------------------------------------------
LEMMA EncodeKeeps == GasInv /\ Encode => GasInv'
<1> SUFFICES ASSUME GasInv, Encode PROVE GasInv'
  OBVIOUS
<1> USE SponsoredGasAssumption
<1>1. index \in Operations /\ step = "encode" /\ step' = "encode" /\ index' = index + 1
  BY DEF GasInv, Types, Encode, Operations
<1>2. bytes' = bytes + EncodedBytes(index) /\ EncodedBytes(index) \in Nat
      /\ EncodedBytes(index) <= MAX_ENCODED_OPERATION_BYTES
  BY <1>1, EncodedIsBounded DEF Encode
<1>3. Types'
  BY <1>1, <1>2 DEF GasInv, Types, Encode, Operations
<1>4. Encoded'
  BY <1>1, <1>2 DEF GasInv, Types, Encoded, Encode, EXECUTE_BATCH_FIXED_CALLDATA_BYTES,
                    MAX_ENCODED_OPERATION_BYTES
<1> QED
  BY <1>1, <1>3, <1>4 DEF GasInv

LEMMA CalldataOrder ==
  ASSUME Types, Encoded, step = "encode", index = Count + 1, NEW zeros \in Nat, zeros <= bytes
  PROVE  /\ CalldataGas(zeros) \in [Estimates -> Nat]
         /\ CalldataGas(zeros)["final"] <= CalldataGas(zeros)["provisional"]
         /\ CalldataGas(zeros)["provisional"] <= CalldataGas(zeros)["setup"]
<1>1. /\ Count \in Nat /\ bytes \in Nat
      /\ bytes <= EXECUTE_BATCH_FIXED_CALLDATA_BYTES + Count * MAX_ENCODED_OPERATION_BYTES
  BY SponsoredGasAssumption DEF Types, Encoded
<1>2. /\ CalldataGas(zeros)["final"] = 16 * (bytes - zeros) + 4 * zeros
      /\ CalldataGas(zeros)["provisional"] = 16 * bytes
      /\ CalldataGas(zeros)["setup"] = 16 * (Count * MAX_ENCODED_OPERATION_BYTES
                                             + EXECUTE_BATCH_FIXED_CALLDATA_BYTES)
  BY DEF CalldataGas, Estimates, FinalCalldataGas
<1>3. \A e \in Estimates : CalldataGas(zeros)[e] \in Nat
  BY <1>1, <1>2 DEF Estimates, MAX_ENCODED_OPERATION_BYTES, EXECUTE_BATCH_FIXED_CALLDATA_BYTES
<1>4. CalldataGas(zeros) \in [Estimates -> Nat]
  BY <1>3 DEF CalldataGas
<1> QED
  BY <1>1, <1>2, <1>4 DEF MAX_ENCODED_OPERATION_BYTES, EXECUTE_BATCH_FIXED_CALLDATA_BYTES

LEMMA BaseGrows ==
  ASSUME NEW a \in Nat, NEW b \in Nat, a <= b
  PROVE  Base(a) \in Nat /\ Base(b) \in Nat /\ Base(a) <= Base(b)
BY SponsoredGasAssumption
DEF Base, OUTER_TRANSACTION_INTRINSIC_GAS, AUTHORIZATION_INTRINSIC_GAS,
    DISPATCHER_BASE_GAS_RESERVE, FINAL_BATCH_GAS_RESERVE

LEMMA StartSumKeeps ==
  ASSUME GasInv, NEW zeros \in ZeroBytes, StartSum(zeros)
  PROVE  GasInv'
<1> USE SponsoredGasAssumption
<1>1. /\ calldata' \in [Estimates -> Nat]
      /\ calldata'["final"] <= calldata'["provisional"]
      /\ calldata'["provisional"] <= calldata'["setup"]
  BY CalldataOrder DEF GasInv, StartSum
<1>2. Types'
  BY <1>1 DEF GasInv, Types, StartSum
<1>3. \A e \in Estimates : tally'[e] = [k \in 1..1 |-> Base(calldata'[e])]
  BY DEF StartSum
<1>4. \A e \in Estimates : calldata'[e] \in Nat /\ Base(calldata'[e]) \in Nat
  BY <1>1, BaseGrows
<1>5. tally' \in [Estimates -> [1..1 -> Nat]]
  BY <1>3, <1>4 DEF StartSum
<1>6. \A e \in Estimates : tally'[e][1] = Base(calldata'[e])
  <2> TAKE e \in Estimates
  <2>1. 1 \in 1..1
    OBVIOUS
  <2> QED
    BY <1>3, <2>1
<1>7. Base(calldata'["final"]) <= Base(calldata'["provisional"])
      /\ Base(calldata'["provisional"]) <= Base(calldata'["setup"])
  BY <1>1, <1>4, BaseGrows DEF Estimates
<1>8. Summed(1)'
  BY <1>4, <1>5, <1>6, <1>7 DEF Summed, F, Estimates, PER_OPERATION_DISPATCH_GAS_RESERVE
<1> QED
  BY <1>2, <1>8 DEF GasInv, Encoded, StartSum

LEMMA AddOperationKeeps == GasInv /\ AddOperation => GasInv'
<1> SUFFICES ASSUME GasInv, AddOperation PROVE GasInv'
  OBVIOUS
<1> USE SponsoredGasAssumption
<1> DEFINE n == index
           o == Own(n)
<1>1. n \in Operations /\ n \in Nat /\ n \in 1..Count /\ step = "sum" /\ step' = "sum" /\ index' = n + 1
  BY DEF GasInv, Types, AddOperation, Operations
<1>2. o \in Nat /\ o >= 30000
  BY <1>1, OwnCovers
<1>3. Summed(n)
  BY <1>1 DEF GasInv
<1>4. \A e \in Estimates :
        /\ tally'[e] \in [1..(n + 1) -> Nat]
        /\ tally'[e][n + 1] = tally[e][n] + o
        /\ \A k \in 1..n : tally'[e][k] = tally[e][k]
  <2> TAKE e \in Estimates
  <2>1. tally[e] \in [1..n -> Nat]
    BY <1>3 DEF Summed
  <2>2. tally'[e] = [k \in 1..(n + 1) |-> IF k = n + 1 THEN tally[e][n] + o ELSE tally[e][k]]
    BY DEF AddOperation
  <2>3. n \in 1..n /\ tally[e][n] \in Nat /\ n + 1 \in 1..(n + 1)
    BY <1>1, <2>1
  <2>4. \A k \in 1..n : k \in 1..(n + 1) /\ k # n + 1
    BY <1>1
  <2>5. \A k \in 1..(n + 1) : k # n + 1 => k \in 1..n
    BY <1>1
  <2> HIDE DEF o
  <2> QED
    BY <1>2, <2>1, <2>2, <2>3, <2>4, <2>5
<1>5. Types'
  BY <1>1 DEF GasInv, Types, AddOperation
<1>6. tally' \in [Estimates -> [1..(n + 1) -> Nat]]
  BY <1>4 DEF AddOperation
<1>7. calldata' = calldata /\ "final" \in Estimates
  BY DEF AddOperation, Estimates
<1>8. F'[n + 1] = F[n] + o /\ \A k \in 1..n : F'[k] = F[k]
  BY <1>4, <1>7 DEF F
<1>9. \A k \in 1..n : F[k] \in Nat
  BY <1>3, <1>7 DEF Summed, F
<1>10. F'[1] = Base(calldata'["final"])
  BY <1>1, <1>3, <1>7, <1>8 DEF Summed
<1>11. \A k \in 1..n : F'[k + 1] = F'[k] + Own(k)
  <2> TAKE k \in 1..n
  <2>1. CASE k = n
    BY <1>1, <1>8, <2>1
  <2>2. CASE k # n
    <3>1. k \in 1..(n - 1) /\ k + 1 \in 1..n
      BY <1>1, <2>2
    <3> QED
      BY <1>3, <1>8, <3>1 DEF Summed
  <2> QED
    BY <2>1, <2>2
<1>12. \A k \in 1..(n + 1) : F'[n + 1] >= F'[k] + ((n + 1) - k) * 30000
  <2> TAKE k \in 1..(n + 1)
  <2>1. CASE k = n + 1
    <3>1. F'[n + 1] \in Nat
      BY <1>1, <1>2, <1>8, <1>9
    <3> QED
      BY <1>1, <2>1, <3>1
  <2>2. CASE k # n + 1
    <3>1. k \in 1..n /\ n \in 1..n
      BY <1>1, <2>2
    <3>2. F[n] >= F[k] + (n - k) * 30000
      BY <1>3, <3>1 DEF Summed, PER_OPERATION_DISPATCH_GAS_RESERVE
    <3>3. F[n] \in Nat /\ F[k] \in Nat /\ F'[k] = F[k]
      BY <1>8, <1>9, <3>1
    <3> HIDE DEF o
    <3> QED
      BY <1>1, <1>2, <1>8, <3>1, <3>2, <3>3
  <2> QED
    BY <2>1, <2>2
<1>13. /\ tally'["final"][n + 1] <= tally'["provisional"][n + 1]
       /\ tally'["provisional"][n + 1] <= tally'["setup"][n + 1]
  <2>1. \A e \in Estimates : tally[e][n] \in Nat /\ tally'[e][n + 1] = tally[e][n] + o
    BY <1>1, <1>3, <1>4 DEF Summed
  <2>2. tally["final"][n] <= tally["provisional"][n] /\ tally["provisional"][n] <= tally["setup"][n]
    BY <1>3 DEF Summed, F
  <2> HIDE DEF o
  <2> QED
    BY <1>2, <2>1, <2>2 DEF Estimates
<1>14. Summed(index)'
  <2>1. (n + 1) - 1 = n
    BY <1>1
  <2>2. \A k \in 1..((n + 1) - 1) : F'[k + 1] = F'[k] + Own(k)
    BY <1>11, <2>1
  <2>3. \A k \in 1..(n + 1) :
          F'[n + 1] >= F'[k] + ((n + 1) - k) * PER_OPERATION_DISPATCH_GAS_RESERVE
    BY <1>12 DEF PER_OPERATION_DISPATCH_GAS_RESERVE
  <2>4. F'[n + 1] = tally'["final"][n + 1]
    BY DEF F
  <2> HIDE DEF n
  <2> QED
    BY <1>1, <1>6, <1>10, <1>13, <2>2, <2>3, <2>4 DEF Summed
<1> QED
  BY <1>1, <1>5, <1>14 DEF GasInv, Encoded, Types

-----------------------------------------------------------------------------
LEMMA DispatchKeeps ==
  ASSUME GasInv, NEW a \in 0..Count, NEW prelude \in Overheads, Dispatch(a, prelude)
  PROVE  GasInv'
<1> USE SponsoredGasAssumption
<1>1. /\ Count \in Nat /\ a \in Nat /\ a <= Count
      /\ prelude \in Nat /\ prelude <= DISPATCHER_BASE_GAS_RESERVE
      /\ index = Count + 1 /\ index' = 1 /\ step = "sum" /\ step' = "dispatch"
      /\ tally' = tally /\ calldata' = calldata /\ spent' = prelude
      /\ bytes' = bytes /\ granted' = granted
  BY DEF Dispatch, WithinReserves, DISPATCHER_BASE_GAS_RESERVE, PER_OPERATION_DISPATCH_GAS_RESERVE
<1>2. Summed(Count + 1)
  BY <1>1 DEF GasInv
<1>3. /\ F[1] \in Nat /\ F[Count + 1] \in Nat /\ calldata["final"] \in Nat
      /\ F[1] = Base(calldata["final"])
      /\ F[Count + 1] >= F[1]
  <2>1. 1 \in 1..(Count + 1) /\ Count + 1 \in 1..(Count + 1) /\ "final" \in Estimates
    BY <1>1 DEF Estimates
  <2>2. F \in [1..(Count + 1) -> Nat]
    BY <1>2, <2>1 DEF Summed, F
  <2>3. F[1] \in Nat /\ F[Count + 1] \in Nat
    BY <2>1, <2>2
  <2>4. F[Count + 1] >= F[1] + ((Count + 1) - 1) * 30000
    BY <1>2, <2>1 DEF Summed, PER_OPERATION_DISPATCH_GAS_RESERVE
  <2>5. F[1] = Base(calldata["final"]) /\ calldata["final"] \in Nat
    BY <1>2, <2>1 DEF Summed, GasInv, Types
  <2> QED
    BY <1>1, <2>3, <2>4, <2>5
<1>4. gas' = F[Count + 1] - 21000 - calldata["final"] - a * 25000 - prelude
  BY DEF Dispatch, Limit, F, OUTER_TRANSACTION_INTRINSIC_GAS, AUTHORIZATION_INTRINSIC_GAS
<1>5. gas' \in Nat /\ gas' + spent' >= 150000 + (F[Count + 1] - F[1])
  BY <1>1, <1>3, <1>4
  DEF Base, OUTER_TRANSACTION_INTRINSIC_GAS, AUTHORIZATION_INTRINSIC_GAS,
      DISPATCHER_BASE_GAS_RESERVE, FINAL_BATCH_GAS_RESERVE
<1>6. Types'
  BY <1>1, <1>5 DEF GasInv, Types
<1>7. Summed(Count + 1)'
  BY <1>1, <1>2 DEF Summed, F
<1>8. Spending'
  <2>1. F' = F
    BY <1>1 DEF F
  <2>2. gas' + spent' >= DISPATCHER_BASE_GAS_RESERVE + FINAL_BATCH_GAS_RESERVE
          + (F'[Count + 1] - F'[index']) + (index' - 1) * PER_OPERATION_DISPATCH_GAS_RESERVE
    BY <1>1, <1>3, <1>5, <2>1
    DEF DISPATCHER_BASE_GAS_RESERVE, FINAL_BATCH_GAS_RESERVE, PER_OPERATION_DISPATCH_GAS_RESERVE
  <2>3. WithinReserves(index' - 1, spent')
    BY <1>1 DEF WithinReserves, DISPATCHER_BASE_GAS_RESERVE, PER_OPERATION_DISPATCH_GAS_RESERVE
  <2>4. \A i \in 1..(index' - 1) : granted'[i] = WalletGas[i]
    BY <1>1
  <2> QED
    BY <1>7, <2>2, <2>3, <2>4 DEF Spending, WithinReserves
<1> QED
  BY <1>1, <1>6, <1>8 DEF GasInv, Encoded

(* The step that matters: the check passes, and the call gets its limit.   *)
LEMMA ExecuteKeeps ==
  ASSUME GasInv, NEW before \in Overheads, NEW after \in Overheads, NEW unused \in BOOLEAN,
         Execute(before, after, unused)
  PROVE  GasInv'
<1> USE SponsoredGasAssumption
<1> DEFINE n == index
           L == WalletGas[n]
           left == gas - before
<1>1. /\ n \in Operations /\ n \in Nat /\ 1 <= n /\ n <= Count /\ Count \in Nat
      /\ step = "dispatch" /\ step' = "dispatch" /\ index' = n + 1
      /\ tally' = tally /\ calldata' = calldata /\ bytes' = bytes
      /\ before \in Nat /\ after \in Nat /\ gas \in Nat /\ spent \in Nat
      /\ granted \in [Operations -> Nat]
      /\ spent' = spent + before + after
  BY DEF GasInv, Types, Execute, Operations
<1>2. Spending
  BY <1>1 DEF GasInv
<1>3. /\ L \in Nat /\ Eip150Buffer(L) \in Nat
      /\ Own(n) = L + Eip150Buffer(L) + 30000
  BY <1>1, OwnCovers
<1>4. /\ F[n] \in Nat /\ F[n + 1] \in Nat /\ F[Count + 1] \in Nat
      /\ F[n + 1] = F[n] + Own(n)
      /\ F[Count + 1] >= F[n + 1] + (Count - n) * 30000
  <2>1. /\ n \in 1..(Count + 1) /\ n + 1 \in 1..(Count + 1) /\ Count + 1 \in 1..(Count + 1)
        /\ n \in 1..((Count + 1) - 1) /\ "final" \in Estimates
    BY <1>1 DEF Estimates
  <2>2. Summed(Count + 1)
    BY <1>2 DEF Spending
  <2>3. F \in [1..(Count + 1) -> Nat]
    BY <2>1, <2>2 DEF Summed, F
  <2>4. F[n + 1] = F[n] + Own(n)
    BY <2>1, <2>2 DEF Summed
  <2>5. F[Count + 1] >= F[n + 1] + ((Count + 1) - (n + 1)) * 30000
    BY <2>1, <2>2 DEF Summed, PER_OPERATION_DISPATCH_GAS_RESERVE
  <2>6. (Count + 1) - (n + 1) = Count - n
    BY <1>1
  <2>7. F[n] \in Nat /\ F[n + 1] \in Nat /\ F[Count + 1] \in Nat
    BY <2>1, <2>3
  <2> QED
    BY <2>4, <2>5, <2>6, <2>7
<1>5. gas + spent >= 150000 + (F[Count + 1] - F[n]) + (n - 1) * 30000
  BY <1>2 DEF Spending, DISPATCHER_BASE_GAS_RESERVE, FINAL_BATCH_GAS_RESERVE,
              PER_OPERATION_DISPATCH_GAS_RESERVE
<1>6. spent + before + after <= 100000 + n * 30000
  BY DEF Execute, WithinReserves, DISPATCHER_BASE_GAS_RESERVE, PER_OPERATION_DISPATCH_GAS_RESERVE
<1>7. left >= after + L + Eip150Buffer(L) + 50000 + (Count - n) * 30000
  <2> HIDE DEF n, L
  <2> QED
    BY <1>1, <1>3, <1>4, <1>5, <1>6
<1>8. CanForwardExactGas(left, n)
  <2>1. L + Eip150Buffer(L) + 50000 + (Count - n) * 30000 <= left
    <3> HIDE DEF n, L
    <3> QED
      BY <1>1, <1>3, <1>7
  <2> QED
    BY <2>1 DEF CanForwardExactGas, FINAL_BATCH_GAS_RESERVE, PER_OPERATION_DISPATCH_GAS_RESERVE
<1>9. Forwarded(left, n) = L
  <2>1. left \in Nat /\ left >= L + Eip150Buffer(L)
    <3> HIDE DEF n, L
    <3> QED
      BY <1>1, <1>3, <1>7
  <2>2. left - left \div 64 >= L
    BY <1>3, <2>1, BufferSuffices
  <2>3. left \div 64 \in Nat
    BY <2>1
  <2> QED
    BY <1>3, <2>1, <2>2, <2>3 DEF Forwarded
<1>10. granted' = [granted EXCEPT ![n] = L]
  BY <1>8, <1>9 DEF Execute
<1>11. PICK used \in {0, L} : gas' = left - used - after
  BY <1>8, <1>9 DEF Execute
<1>12. /\ gas' \in Nat
       /\ gas' + spent' >= 150000 + (F[Count + 1] - F[n + 1]) + ((n + 1) - 1) * 30000
  <2>1. used \in Nat /\ used <= L
    BY <1>3, <1>11
  <2> HIDE DEF n, L
  <2>2. gas' \in Nat
    BY <1>1, <1>3, <1>7, <1>11, <2>1
  <2>3. gas' + spent' >= 150000 + (F[Count + 1] - F[n + 1]) + ((n + 1) - 1) * 30000
    BY <1>1, <1>3, <1>4, <1>5, <1>11, <2>1
  <2> QED
    BY <2>2, <2>3
<1>13. Types'
  <2>1. index' \in 1..(Count + 1) /\ spent' \in Nat
    BY <1>1
  <2>2. granted' \in [Operations -> Nat]
    BY <1>1, <1>3, <1>10
  <2>3. bytes' \in Nat /\ calldata' \in [Estimates -> Nat]
    BY <1>1 DEF GasInv, Types
  <2> QED
    BY <1>1, <1>12, <2>1, <2>2, <2>3 DEF Types
<1>14. Spending'
  <2>1. Summed(Count + 1)'
    BY <1>1, <1>2 DEF Spending, Summed, F
  <2>2. gas' + spent' >= DISPATCHER_BASE_GAS_RESERVE + FINAL_BATCH_GAS_RESERVE
          + (F'[Count + 1] - F'[index']) + (index' - 1) * PER_OPERATION_DISPATCH_GAS_RESERVE
    <3>1. F' = F
      BY <1>1 DEF F
    <3> QED
      BY <1>1, <1>12, <3>1
      DEF DISPATCHER_BASE_GAS_RESERVE, FINAL_BATCH_GAS_RESERVE, PER_OPERATION_DISPATCH_GAS_RESERVE
  <2>3. WithinReserves(index' - 1, spent')
    <3>1. index' - 1 = n
      BY <1>1
    <3> QED
      BY <1>1, <1>6, <3>1
      DEF WithinReserves, DISPATCHER_BASE_GAS_RESERVE, PER_OPERATION_DISPATCH_GAS_RESERVE
  <2>4. \A i \in 1..(index' - 1) : granted'[i] = WalletGas[i]
    <3> TAKE i \in 1..(index' - 1)
    <3>1. CASE i = n
      BY <1>1, <1>10, <3>1
    <3>2. CASE i # n
      <4>1. i \in 1..(index - 1)
        BY <1>1, <3>2
      <4> QED
        BY <1>1, <1>2, <1>10, <3>2, <4>1 DEF Spending
    <3> QED
      BY <3>1, <3>2
  <2> QED
    BY <2>1, <2>2, <2>3, <2>4 DEF Spending, WithinReserves
<1> QED
  BY <1>1, <1>13, <1>14 DEF GasInv, Encoded

LEMMA FinishKeeps == GasInv /\ (Finish \/ UNCHANGED gasVars) => GasInv'
<1>1. ASSUME GasInv, Finish PROVE GasInv'
  <2>1. Types' /\ Encoded' /\ Spending'
    BY <1>1 DEF GasInv, Finish, Types, Encoded, Spending, Summed, F, WithinReserves
  <2> QED
    BY <1>1, <2>1 DEF GasInv, Finish
<1>2. ASSUME GasInv, UNCHANGED gasVars PROVE GasInv'
  BY <1>2 DEF GasInv, gasVars, Types, Encoded, Spending, Summed, F, WithinReserves
<1> QED
  BY <1>1, <1>2

THEOREM InvHolds == GasSpec => []GasInv
<1>1. GasInv /\ [GasNext]_gasVars => GasInv'
  BY EncodeKeeps, StartSumKeeps, AddOperationKeeps, DispatchKeeps, ExecuteKeeps, FinishKeeps
  DEF GasNext
<1> QED
  BY InitGas, <1>1, PTL DEF GasSpec

-----------------------------------------------------------------------------
(* Each sum is a natural number however far the loops have come.           *)
THEOREM TypesHold == GasSpec => []GasTypeOK
<1>1. GasInv => GasTypeOK
  <2> SUFFICES ASSUME GasInv PROVE GasTypeOK
    OBVIOUS
  <2> USE SponsoredGasAssumption
  <2>1. \A e \in Estimates : \E n \in 1..(Count + 1) : tally[e] \in [1..n -> Nat]
    <3> TAKE e \in Estimates
    <3>1. CASE step = "encode"
      <4>1. tally[e] \in [1..1 -> Nat]
        BY <3>1 DEF GasInv, Encoded
      <4>2. 1 \in 1..(Count + 1)
        BY Count \in Nat
      <4> QED
        BY <4>1, <4>2
    <3>2. CASE step = "sum"
      BY <3>2 DEF GasInv, Types, Summed
    <3>3. CASE step \in {"dispatch", "done"}
      <4>1. tally[e] \in [1..(Count + 1) -> Nat]
        BY <3>3 DEF GasInv, Spending, Summed
      <4> QED
        BY <4>1
    <3> QED
      BY <3>1, <3>2, <3>3 DEF GasInv, Types
  <2> QED
    BY <2>1 DEF GasInv, Types, GasTypeOK
<1> QED
  BY InvHolds, <1>1, PTL

(* Every wallet's call is given the gas limit the wallet signed.           *)
THEOREM GasReachesEveryWallet == GasSpec => []EveryWalletGetsItsGas
<1>1. GasInv => EveryWalletGetsItsGas
  BY DEF GasInv, Spending, EveryWalletGetsItsGas
<1> QED
  BY InvHolds, <1>1, PTL

(* The dispatcher never runs out of gas.                                   *)
THEOREM ReserveStays == GasSpec => []ReserveIsLeft
<1>1. GasInv => ReserveIsLeft
  <2> SUFFICES ASSUME GasInv, step \in {"dispatch", "done"} PROVE gas >= FINAL_BATCH_GAS_RESERVE
    BY DEF ReserveIsLeft
  <2> USE SponsoredGasAssumption
  <2>1. Spending /\ index \in Nat /\ 1 <= index /\ index <= Count + 1 /\ Count \in Nat
    BY DEF GasInv, Types
  <2>2. index \in 1..(Count + 1) /\ Count + 1 \in 1..(Count + 1) /\ "final" \in Estimates
    BY <2>1 DEF Estimates
  <2>3. F[index] \in Nat /\ F[Count + 1] \in Nat
    BY <2>1, <2>2 DEF Spending, Summed, F
  <2>4. F[Count + 1] >= F[index] + ((Count + 1) - index) * 30000
    BY <2>1, <2>2 DEF Spending, Summed, PER_OPERATION_DISPATCH_GAS_RESERVE
  <2>5. /\ gas + spent >= 150000 + (F[Count + 1] - F[index]) + (index - 1) * 30000
        /\ spent <= 100000 + (index - 1) * 30000
    BY <2>1 DEF Spending, WithinReserves, DISPATCHER_BASE_GAS_RESERVE,
                FINAL_BATCH_GAS_RESERVE, PER_OPERATION_DISPATCH_GAS_RESERVE
  <2>6. gas \in Nat /\ spent \in Nat
    BY DEF GasInv, Types
  <2> QED
    BY <2>1, <2>3, <2>4, <2>5, <2>6 DEF FINAL_BATCH_GAS_RESERVE
<1> QED
  BY InvHolds, <1>1, PTL

(* What was checked against the sponsor's balance bounds what is sent.     *)
THEOREM EstimatesAreBounds == GasSpec => []EstimatesBound
<1>1. GasInv => EstimatesBound
  BY DEF GasInv, Summed, F, Limit, EstimatesBound
<1> QED
  BY InvHolds, <1>1, PTL
=============================================================================
