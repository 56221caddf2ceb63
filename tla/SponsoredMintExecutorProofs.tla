-------------------- MODULE SponsoredMintExecutorProofs --------------------
(***************************************************************************)
(* Proofs about SponsoredMintExecutor for every set of wallets,            *)
(* dispatchers, signatures and batches, and every depth of reentrancy.     *)
(***************************************************************************)
EXTENDS SponsoredMintExecutor, FiniteSums, SequenceTheorems, FiniteSetTheorems, TLAPS

(* What the actions do to the call stack: push, pop, advance the top.      *)
LEMMA PushFrame ==
  ASSUME NEW F, NEW s \in Seq(F), NEW f \in F
  PROVE  /\ Append(s, f) \in Seq(F)
         /\ Append(s, f) # <<>>
         /\ Len(Append(s, f)) = Len(s) + 1
         /\ \A i \in 1..Len(s) : Append(s, f)[i] = s[i]
         /\ Append(s, f)[Len(s) + 1] = f
  BY AppendProperties, LenProperties, EmptySeq

LEMMA PopFrame ==
  ASSUME NEW F, NEW s \in Seq(F), s # <<>>
  PROVE  /\ Len(s) \in Nat \ {0}
         /\ s[Len(s)] \in F
         /\ SubSeq(s, 1, Len(s) - 1) \in Seq(F)
         /\ Len(SubSeq(s, 1, Len(s) - 1)) = Len(s) - 1
         /\ \A i \in 1..(Len(s) - 1) : SubSeq(s, 1, Len(s) - 1)[i] = s[i]
  <1>1. Len(s) \in Nat \ {0}
    BY EmptySeq
  <1>2. \A i \in 1..Len(s) : s[i] \in F
    BY ElementOfSeq
  <1> DEFINE n == Len(s) - 1
  <1>3. n \in Int /\ \A i \in 1..n : s[i] \in F
    BY <1>1, <1>2
  <1>4. /\ SubSeq(s, 1, n) \in Seq(F)
        /\ Len(SubSeq(s, 1, n)) = IF 1 <= n THEN n - 1 + 1 ELSE 0
        /\ \A i \in 1..(n - 1 + 1) : SubSeq(s, 1, n)[i] = s[1 + i - 1]
    BY <1>3, SubSeqProperties
  <1>5. Len(SubSeq(s, 1, n)) = n /\ \A i \in 1..n : SubSeq(s, 1, n)[i] = s[i]
    <2> HIDE DEF n
    <2>1. n - 1 + 1 = n /\ \A i \in 1..n : 1 + i - 1 = i
      BY <1>3
    <2>2. n >= 0
      BY <1>1 DEF n
    <2> QED BY <1>3, <1>4, <2>1, <2>2
  <1> QED BY <1>1, <1>2, <1>4, <1>5
-----------------------------------------------------------------------------
(* The kinds of frames and what each carries.                              *)
LEMMA FrameKinds ==
  ASSUME NEW f \in Frame
  PROVE  /\ f.saved \in World
         /\ f.kind = "mint" => f.wallet \in Wallets /\ f.op \in Ops
         /\ f.kind = "callback" => f.wallet \in Wallets
         /\ f.kind = "batch" =>
              /\ f.dispatcher \in Dispatchers /\ f.sponsor \in Sponsors
              /\ f.batch \in BatchIds /\ f.ops \in Seq(Ops) /\ f.next \in Nat \ {0}
              /\ [f EXCEPT !.next = @ + 1] \in Frame
              /\ [f EXCEPT !.next = @ + 1] = [f EXCEPT !.next = f.next + 1]
  BY DEF Frame

LEMMA NewFrames ==
  ASSUME NEW wld \in World
  PROVE  /\ ExternalFrame(wld) \in Frame
         /\ \A w \in Wallets : CallbackFrame(wld, w) \in Frame
         /\ \A w \in Wallets, op \in Ops : MintFrame(wld, w, op) \in Frame
         /\ \A d \in Dispatchers, t \in Sponsors, b \in BatchIds, ops \in Seq(Ops) :
              BatchFrame(wld, d, t, b, ops) \in Frame
  BY DEF ExternalFrame, CallbackFrame, MintFrame, BatchFrame, Frame

(* The frame on top, while there is one.                                   *)
LEMMA TopFrame ==
  ASSUME TypeOK, stack # <<>>
  PROVE  /\ Len(stack) \in Nat \ {0}
         /\ Top \in Frame
         /\ Top.saved \in World
         /\ Below \in Seq(Frame)
         /\ Len(Below) = Len(stack) - 1
         /\ \A i \in 1..(Len(stack) - 1) : Below[i] = stack[i]
  BY PopFrame, FrameKinds DEF TypeOK, Top, Below

LEMMA TopBatch ==
  ASSUME TypeOK, Running("batch")
  PROVE  /\ Top.dispatcher \in Dispatchers
         /\ Key(Top) \in BatchKey
         /\ Top.ops \in Seq(Ops)
         /\ Top.next \in Nat \ {0}
         /\ NextEntry => stack' \in Seq(Frame)
         /\ Top.next <= Len(Top.ops) => Entry(Top) \in Ops /\ EntryWallet(Top) \in Wallets
  <1>1. stack # <<>> /\ Top.kind = "batch"
    BY DEF Running
  <1>2. Len(stack) \in Nat \ {0} /\ Top \in Frame
    BY <1>1, TopFrame
  <1>3. /\ Top.dispatcher \in Dispatchers /\ Top.sponsor \in Sponsors
        /\ Top.batch \in BatchIds /\ Top.ops \in Seq(Ops) /\ Top.next \in Nat \ {0}
        /\ [Top EXCEPT !.next = @ + 1] \in Frame
    BY <1>1, <1>2, FrameKinds
  <1>4. Key(Top) \in BatchKey
    BY <1>3 DEF Key, BatchKey
  <1>5. NextEntry => stack' \in Seq(Frame)
    <2>1. stack \in Seq(Frame) /\ Len(stack) \in 1..Len(stack)
      BY <1>2 DEF TypeOK
    <2>2. [stack EXCEPT ![Len(stack)] = [Top EXCEPT !.next = @ + 1]] \in Seq(Frame)
      BY <2>1, <1>3, ExceptSeq
    <2> QED BY <2>2 DEF NextEntry, Top
  <1>6. ASSUME Top.next <= Len(Top.ops)
        PROVE  Entry(Top) \in Ops /\ EntryWallet(Top) \in Wallets
    <2>1. Top.next \in 1..Len(Top.ops)
      BY <1>3, <1>6, LenProperties
    <2> QED BY <2>1, <1>3, ElementOfSeq, ConstantsAssumption DEF Entry, EntryWallet
  <1> QED BY <1>3, <1>4, <1>5, <1>6

(* The world stays well formed under each update an action makes.          *)
LEMMA WorldUpdates ==
  ASSUME NEW wld \in World
  PROVE  /\ ClearTransient(wld) \in World
         /\ \A k \in BatchKey : [wld EXCEPT !.used = @ \cup {k}] \in World
         /\ \A d \in Dispatchers : [wld EXCEPT !.guard = @ \cup {d}] \in World
         /\ \A d \in Dispatchers : [wld EXCEPT !.guard = @ \ {d}] \in World
         /\ \A d \in Dispatchers, w \in Wallets, k \in BatchKey :
              [wld EXCEPT !.seen[d][w] = k] \in World
         /\ \A w \in Wallets, op \in Ops :
              /\ OpenContext(wld, w, op) \in World
              /\ PayMintValue(wld, w, op) \in World
              /\ ClearMintContext(wld, w) \in World
         /\ \A a : [wld EXCEPT !.runs[a] = @ + 1] \in World
  <1> USE DEF World, ClearContext
  <1>1. ClearTransient(wld) \in World
    BY DEF ClearTransient
  <1>2. ASSUME NEW k \in BatchKey PROVE [wld EXCEPT !.used = @ \cup {k}] \in World
    OBVIOUS
  <1>3. ASSUME NEW d \in Dispatchers
        PROVE  /\ [wld EXCEPT !.guard = @ \cup {d}] \in World
               /\ [wld EXCEPT !.guard = @ \ {d}] \in World
    OBVIOUS
  <1>4. ASSUME NEW d \in Dispatchers, NEW w \in Wallets, NEW k \in BatchKey
        PROVE  [wld EXCEPT !.seen[d][w] = k] \in World
    OBVIOUS
  <1>5. ASSUME NEW w \in Wallets, NEW op \in Ops
        PROVE  /\ OpenContext(wld, w, op) \in World
               /\ PayMintValue(wld, w, op) \in World
               /\ ClearMintContext(wld, w) \in World
    <2>1. UnitsOf[op] \in Nat /\ ValueOf[op] \in Nat
      BY ConstantsAssumption
    <2>2. ASSUME NEW c \in [active: BOOLEAN, expected: Nat, forwarded: Nat]
          PROVE  [wld EXCEPT !.ctx[w] = c] \in World
      OBVIOUS
    <2>3. [active |-> TRUE, expected |-> UnitsOf[op], forwarded |-> 0]
            \in [active: BOOLEAN, expected: Nat, forwarded: Nat]
      BY <2>1
    <2>4. ClearContext \in [active: BOOLEAN, expected: Nat, forwarded: Nat]
      OBVIOUS
    <2>5. wld.ether[w] - ValueOf[op] \in Int
      BY <2>1
    <2>6. PayMintValue(wld, w, op) \in World
      BY <2>5 DEF PayMintValue
    <2> HIDE DEF World, ClearContext
    <2>7. OpenContext(wld, w, op) \in World
      BY <2>2, <2>3 DEF OpenContext
    <2>8. ClearMintContext(wld, w) \in World
      BY <2>2, <2>4 DEF ClearMintContext
    <2> QED BY <2>6, <2>7, <2>8
  <1>6. ASSUME NEW a PROVE [wld EXCEPT !.runs[a] = @ + 1] \in World
    <2>1. [wld.runs EXCEPT ![a] = @ + 1] \in [Signed -> Nat]
      <3>1. wld.runs \in [Signed -> Nat]
        OBVIOUS
      <3>2. CASE a \in Signed
        <4>1. wld.runs[a] + 1 \in Nat
          BY <3>1, <3>2
        <4> QED BY <3>1, <4>1
      <3>3. CASE a \notin Signed
        BY <3>1, <3>3
      <3> QED BY <3>2, <3>3
    <2>2. ASSUME NEW r \in [Signed -> Nat] PROVE [wld EXCEPT !.runs = r] \in World
      OBVIOUS
    <2> QED BY <2>1, <2>2
  <1> QED BY <1>1, <1>2, <1>3, <1>4, <1>5, <1>6

LEMMA TokenUpdates ==
  ASSUME NEW wld \in World, NEW w \in Wallets, NEW units \in Nat, NEW isNft \in BOOLEAN
  PROVE  /\ Credit(wld, w, isNft, units) \in World
         /\ Forward(wld, w, isNft, units) \in World
         /\ [wld EXCEPT !.held[w] = @ + units, !.minted = @ + units] \in World
         /\ [wld EXCEPT !.ctx[w].forwarded = @ + units] \in World
         /\ [wld EXCEPT !.ether[w] = @ + units,
                        !.donated[w] = IF wld.ctx[w].active THEN @ ELSE @ + units] \in World
  <1>1. /\ wld.held[w] + units \in Int /\ wld.held[w] - units \in Int
        /\ wld.delivered[w] + units \in Nat /\ wld.minted + units \in Nat
        /\ wld.ether[w] + units \in Int /\ wld.donated[w] + units \in Nat
        /\ wld.donated[w] \in Nat
        /\ wld.ctx[w].forwarded + units \in Nat
    BY DEF World
  <1>2. [wld EXCEPT !.held[w] = @ + units, !.minted = @ + units] \in World
    BY <1>1 DEF World
  <1>3. [wld EXCEPT !.held[w] = @ - units, !.delivered[w] = @ + units] \in World
    BY <1>1 DEF World
  <1>4. [wld EXCEPT !.ctx[w].forwarded = @ + units] \in World
    <2>1. ASSUME NEW c \in [Wallets -> [active: BOOLEAN, expected: Nat, forwarded: Nat]]
          PROVE  [wld EXCEPT !.ctx = c] \in World
      BY DEF World
    <2>2. wld.ctx \in [Wallets -> [active: BOOLEAN, expected: Nat, forwarded: Nat]]
      BY DEF World
    <2>3. [wld.ctx[w] EXCEPT !.forwarded = @ + units]
            \in [active: BOOLEAN, expected: Nat, forwarded: Nat]
      BY <1>1, <2>2
    <2>4. [wld.ctx EXCEPT ![w] = [wld.ctx[w] EXCEPT !.forwarded = @ + units]]
            \in [Wallets -> [active: BOOLEAN, expected: Nat, forwarded: Nat]]
      BY <2>2, <2>3
    <2>5. [wld EXCEPT !.ctx = [wld.ctx EXCEPT ![w] =
                                 [wld.ctx[w] EXCEPT !.forwarded = @ + units]]] \in World
      BY <2>1, <2>4
    <2> QED BY <2>5
  <1>5. [wld EXCEPT !.ether[w] = @ + units,
                   !.donated[w] = IF wld.ctx[w].active THEN @ ELSE @ + units] \in World
    <2>1. (IF wld.ctx[w].active THEN wld.donated[w] ELSE wld.donated[w] + units) \in Nat
      BY <1>1
    <2> QED BY <1>1, <2>1 DEF World
  <1> QED BY <1>2, <1>3, <1>4, <1>5 DEF Credit, Forward
-----------------------------------------------------------------------------
LEMMA InitTypeOK == Init => TypeOK
  <1> SUFFICES ASSUME Init PROVE TypeOK
    OBVIOUS
  <1>1. GenesisWorld \in World
    BY ConstantsAssumption DEF GenesisWorld, World, ClearContext
  <1>2. stack \in Seq(Frame)
    BY EmptySeq DEF Init
  <1> QED BY <1>1, <1>2, ConstantsAssumption DEF Init, TypeOK

(* A frame that ends by restoring its snapshot, or by keeping the world.   *)
LEMMA PopTypeOK ==
  ASSUME TypeOK, stack # <<>>, stack' = Below,
         world' = Top.saved \/ world' \in World,
         ret' \in {"none", "ok", "fail"}, UNCHANGED <<delegate, now>>
  PROVE  TypeOK'
  BY TopFrame DEF TypeOK

LEMMA ContractTypeOK == TypeOK /\ Contract => TypeOK'
  <1> SUFFICES ASSUME TypeOK, Contract PROVE TypeOK'
    OBVIOUS
  <1>1. ASSUME NEW d \in Dispatchers, NEW t \in Sponsors, NEW b \in BatchIds,
               NEW ops \in Batches, ExecuteBatch(d, t, b, ops)
        PROVE  TypeOK'
    <2>1. ops \in Seq(Ops)
      BY SeqDef, ConstantsAssumption DEF Batches
    <2>2. BatchFrame(world, d, t, b, ops) \in Frame
      BY <2>1, NewFrames DEF TypeOK
    <2>3. stack' \in Seq(Frame)
      BY <1>1, <2>2, PushFrame DEF ExecuteBatch, TypeOK
    <2>4. <<d, t, b>> \in BatchKey
      BY DEF BatchKey
    <2>5. [world EXCEPT !.used = @ \cup {<<d, t, b>>}] \in World
      BY <2>4, WorldUpdates DEF TypeOK
    <2>6. world' = [[world EXCEPT !.used = @ \cup {<<d, t, b>>}] EXCEPT !.guard = @ \cup {d}]
      BY <1>1 DEF ExecuteBatch, TypeOK, World
    <2>7. world' \in World
      BY <2>5, <2>6, WorldUpdates
    <2> QED BY <1>1, <2>3, <2>7 DEF ExecuteBatch, TypeOK
  <1>2. CASE RefuseEntry
    BY <1>2, TopBatch DEF RefuseEntry, AtEntry, TypeOK
  <1>a. ASSUME AtEntry PROVE MarkSeen \in World
    BY <1>a, TopBatch, WorldUpdates DEF AtEntry, MarkSeen, TypeOK
  <1>3. CASE FailEntry
    BY <1>3, <1>a, TopBatch DEF FailEntry, AtEntry, TypeOK
  <1>4. CASE CallWallet
    <2> DEFINE op == Entry(Top)
               w  == EntryWallet(Top)
               opened == OpenContext(MarkSeen, w, op)
    <2>1. op \in Ops /\ w \in Wallets /\ MarkSeen \in World
      BY <1>4, <1>a, TopBatch DEF CallWallet, AtEntry
    <2>2. opened \in World /\ PayMintValue(opened, w, op) \in World
      BY <2>1, WorldUpdates
    <2>3. MintFrame(MarkSeen, w, op) \in Frame /\ ExternalFrame(opened) \in Frame
      BY <2>1, <2>2, NewFrames
    <2>4. /\ world' = PayMintValue(opened, w, op)
          /\ stack' = Append(Append(stack, MintFrame(MarkSeen, w, op)), ExternalFrame(opened))
          /\ ret' = "none" /\ UNCHANGED <<delegate, now>>
      BY <1>4 DEF CallWallet
    <2> HIDE DEF op, w, opened
    <2>5. stack' \in Seq(Frame)
      BY <2>3, <2>4, PushFrame DEF TypeOK
    <2> QED BY <2>2, <2>4, <2>5 DEF TypeOK
  <1>5. CASE FinishMint
    <2>1. stack # <<>> /\ Top \in Frame /\ Top.kind = "mint"
      BY <1>5, TopFrame DEF FinishMint, Running
    <2>2. Top.wallet \in Wallets /\ Top.op \in Ops
      BY <2>1, FrameKinds
    <2>3. world' \in World
      BY <1>5, <2>2, WorldUpdates DEF FinishMint, TypeOK
    <2> QED BY <1>5, <2>1, <2>3, PopTypeOK DEF FinishMint
  <1>6. CASE RevertMint
    BY <1>6, PopTypeOK DEF RevertMint, RevertTop, Running
  <1>7. CASE EmitWalletExecution
    <2>1. world' \in World
      BY <1>7, WorldUpdates DEF EmitWalletExecution, TypeOK
    <2> QED BY <1>7, <2>1, TopBatch DEF EmitWalletExecution, TypeOK
  <1>8. CASE FinishBatch
    <2>1. world' \in World
      BY <1>8, TopBatch, WorldUpdates DEF FinishBatch, TypeOK
    <2> QED BY <1>8, <2>1, PopTypeOK DEF FinishBatch, Running, TypeOK
  <1>9. CASE BatchOutOfGas
    BY <1>9, PopTypeOK DEF BatchOutOfGas, Running, TypeOK
  <1>10. ASSUME NEW w \in Wallets, NEW isNft \in BOOLEAN, NEW isMint \in BOOLEAN,
                NEW units \in 1..MaxSupply, ForwardReceipt(w, isNft, isMint, units)
         PROVE  TypeOK'
    <2> DEFINE credited == Credit(world, w, isNft, units)
               counted == [credited EXCEPT !.ctx[w].forwarded = @ + units]
    <2>1. units \in Nat /\ world \in World
      BY ConstantsAssumption DEF TypeOK
    <2>2. credited \in World
      BY <2>1, TokenUpdates
    <2> HIDE DEF credited
    <2>3. counted \in World
      BY <2>1, <2>2, TokenUpdates
    <2> HIDE DEF counted
    <2>4. Forward(counted, w, isNft, units) \in World
      BY <2>1, <2>3, TokenUpdates
    <2>5. CallbackFrame(world, w) \in Frame /\ ExternalFrame(counted) \in Frame
      BY <2>1, <2>3, NewFrames
    <2>6. /\ world' = Forward(counted, w, isNft, units)
          /\ stack' = Append(Append(stack, CallbackFrame(world, w)), ExternalFrame(counted))
          /\ ret' = "none" /\ UNCHANGED <<delegate, now>>
      BY <1>10 DEF ForwardReceipt, counted, credited
    <2>7. stack' \in Seq(Frame)
      BY <2>5, <2>6, PushFrame DEF TypeOK
    <2> QED BY <2>4, <2>6, <2>7 DEF TypeOK
  <1>11. CASE FinishCallback
    BY <1>11, PopTypeOK DEF FinishCallback, Running, TypeOK
  <1>12. CASE RevertCallback
    BY <1>12, PopTypeOK DEF RevertCallback, Running
  <1> QED BY <1>1, <1>2, <1>3, <1>4, <1>5, <1>6, <1>7, <1>8, <1>9, <1>10, <1>11, <1>12
          DEF Contract

LEMMA EnvironmentTypeOK == TypeOK /\ Environment => TypeOK'
  <1> SUFFICES ASSUME TypeOK, Environment PROVE TypeOK'
    OBVIOUS
  <1>1. ASSUME NEW w \in Wallets, NEW units \in 1..MaxSupply, KeepReceipt(w, units)
        PROVE  TypeOK'
    <2>1. units \in Nat
      BY ConstantsAssumption
    <2> QED BY <1>1, <2>1, TokenUpdates DEF KeepReceipt, TypeOK
  <1>2. ASSUME NEW w \in Wallets, NEW amount \in 1..MaxDonation, SendEther(w, amount)
        PROVE  TypeOK'
    <2>1. amount \in Nat
      BY ConstantsAssumption
    <2> QED BY <1>2, <2>1, TokenUpdates DEF SendEther, TypeOK
  <1>3. CASE ExternalReturn
    <2>1. world' \in World
      BY <1>3, WorldUpdates DEF ExternalReturn, TypeOK
    <2> QED BY <1>3, <2>1, PopTypeOK DEF ExternalReturn, Running
  <1>4. CASE ExternalRevert
    BY <1>4, PopTypeOK DEF ExternalRevert, Running
  <1>5. CASE BeginTransaction
    <2>1. <<ExternalFrame(world)>> \in Seq(Frame)
      BY NewFrames DEF TypeOK
    <2> QED BY <1>5, <2>1 DEF BeginTransaction, TypeOK
  <1>6. ASSUME NEW w \in Wallets, NEW d \in Dispatchers \cup {NoDelegate}, Delegate(w, d)
        PROVE  TypeOK'
    BY <1>6 DEF Delegate, TypeOK
  <1>7. CASE Tick
    BY <1>7, ConstantsAssumption DEF Tick, TypeOK
  <1> QED BY <1>1, <1>2, <1>3, <1>4, <1>5, <1>6, <1>7 DEF Environment

(***************************************************************************)
(* Type correctness of the contract's storage, of every snapshot a revert  *)
(* would restore and of every frame, for all constants.                    *)
(***************************************************************************)
THEOREM TypeCorrect == Spec => []TypeOK
  <1>1. TypeOK /\ [Next]_vars => TypeOK'
    <2>1. CASE UNCHANGED vars
      BY <2>1 DEF vars, TypeOK
    <2> QED BY <2>1, ContractTypeOK, EnvironmentTypeOK DEF Next
  <1> QED BY <1>1, InitTypeOK, PTL DEF Spec
-----------------------------------------------------------------------------
(***************************************************************************)
(* Why a signature is never honoured twice.  A success is counted only     *)
(* while its batch's frame is open, and that frame's entry has moved past  *)
(* every authorization it has counted; a batch whose frame is gone is      *)
(* marked as used wherever it left a success behind.  Both must hold of    *)
(* the current world and of every snapshot a revert may bring back, for    *)
(* the frames open in it: WorldAt(s, wld, i) is the world that frame i was *)
(* entered with.                                                           *)
(***************************************************************************)
WorldAt(s, wld, i) == IF i <= Len(s) THEN s[i].saved ELSE wld

Sound(wld) ==
  \A a \in Signed :
    /\ wld.runs[a] <= 1
    /\ wld.runs[a] > 0 => KeyOf(a) \in wld.used

OpenIn(f, wld) ==
  /\ Key(f) \in wld.used
  /\ \A a \in Signed : KeyOf(a) = Key(f) /\ wld.runs[a] > 0 => a.index < f.next - 1

ReplayInvOn(s, wld) ==
  /\ \A j \in 1..(Len(s) + 1) : Sound(WorldAt(s, wld, j))
  /\ \A j \in 1..(Len(s) + 1) : \A i \in 1..(j - 1) :
       s[i].kind = "batch" => OpenIn(s[i], WorldAt(s, wld, j))
  /\ \A i \in 1..Len(s) : s[i].kind = "batch" => Key(s[i]) \notin s[i].saved.used

ReplayInv == ReplayInvOn(stack, world)

(* All that the invariant reads of a world.                                *)
SameEvidence(v, wld) == v.used = wld.used /\ v.runs = wld.runs

LEMMA EvidenceDecides ==
  ASSUME NEW v, NEW wld, SameEvidence(v, wld)
  PROVE  /\ Sound(wld) => Sound(v)
         /\ \A f : OpenIn(f, wld) => OpenIn(f, v)
  BY DEF SameEvidence, Sound, OpenIn

LEMMA KeepReplayInv ==
  ASSUME NEW s \in Seq(Frame), NEW wld, NEW v, ReplayInvOn(s, wld), SameEvidence(v, wld)
  PROVE  ReplayInvOn(s, v)
  <1>1. Len(s) \in Nat
    BY LenProperties
  <1>2. ASSUME NEW j \in 1..(Len(s) + 1)
        PROVE  /\ Sound(WorldAt(s, wld, j)) => Sound(WorldAt(s, v, j))
               /\ \A f : OpenIn(f, WorldAt(s, wld, j)) => OpenIn(f, WorldAt(s, v, j))
    BY <1>1, EvidenceDecides DEF WorldAt
  <1> QED BY <1>2 DEF ReplayInvOn

LEMMA PopReplayInv ==
  ASSUME NEW s \in Seq(Frame), NEW wld, NEW v, s # <<>>, ReplayInvOn(s, wld),
         SameEvidence(v, wld) \/ SameEvidence(v, s[Len(s)].saved)
  PROVE  ReplayInvOn(SubSeq(s, 1, Len(s) - 1), v)
  <1> DEFINE r == SubSeq(s, 1, Len(s) - 1)
             n == Len(s)
  <1>1. n \in Nat \ {0} /\ Len(r) = n - 1 /\ \A i \in 1..(n - 1) : r[i] = s[i]
    BY PopFrame
  <1>2. ASSUME NEW j \in 1..n
        PROVE  \E k \in {n, n + 1} \cup {j} :
                 /\ k \in 1..(n + 1) /\ j <= k
                 /\ SameEvidence(WorldAt(r, v, j), WorldAt(s, wld, k))
    <2> HIDE DEF r
    <2>1. CASE j <= n - 1
      BY <1>1, <2>1 DEF WorldAt, SameEvidence
    <2>2. CASE j = n
      <3>1. WorldAt(r, v, j) = v
        BY <1>1, <2>2 DEF WorldAt
      <3>2. WorldAt(s, wld, n) = s[n].saved /\ WorldAt(s, wld, n + 1) = wld
        BY <1>1 DEF WorldAt
      <3> QED BY <1>1, <2>2, <3>1, <3>2
    <2> QED BY <1>1, <2>1, <2>2
  <1> HIDE DEF r, n
  <1>3. ASSUME NEW j \in 1..n
        PROVE  /\ Sound(WorldAt(r, v, j))
               /\ \A i \in 1..(j - 1) : r[i].kind = "batch" => OpenIn(r[i], WorldAt(r, v, j))
    <2>1. PICK k \in 1..(n + 1) : /\ j <= k
                                  /\ SameEvidence(WorldAt(r, v, j), WorldAt(s, wld, k))
      BY <1>2
    <2>2. Sound(WorldAt(s, wld, k))
      BY <2>1 DEF ReplayInvOn, n
    <2>3. ASSUME NEW i \in 1..(j - 1), r[i].kind = "batch"
          PROVE  OpenIn(r[i], WorldAt(r, v, j))
      <3>1. i \in 1..(k - 1) /\ r[i] = s[i]
        BY <1>1, <2>1
      <3>2. OpenIn(s[i], WorldAt(s, wld, k))
        BY <2>1, <2>3, <3>1 DEF ReplayInvOn, n
      <3> QED BY <2>1, <3>1, <3>2, EvidenceDecides
    <2> QED BY <2>1, <2>2, <2>3, EvidenceDecides
  <1>4. \A i \in 1..(n - 1) : r[i].kind = "batch" => Key(r[i]) \notin r[i].saved.used
    BY <1>1 DEF ReplayInvOn, n
  <1>5. Len(r) + 1 = n /\ Len(r) = n - 1
    BY <1>1
  <1>6. ReplayInvOn(r, v)
    BY <1>3, <1>4, <1>5 DEF ReplayInvOn
  <1> QED BY <1>6 DEF r

LEMMA PushReplayInv ==
  ASSUME NEW s \in Seq(Frame), NEW wld, NEW v, NEW f \in Frame,
         ReplayInvOn(s, wld), SameEvidence(f.saved, wld),
         IF f.kind = "batch" THEN OpenIn(f, v) /\ Key(f) \notin wld.used ELSE TRUE,
         v.runs = wld.runs, wld.used \subseteq v.used
  PROVE  ReplayInvOn(Append(s, f), v)
  <1> DEFINE r == Append(s, f)
             n == Len(s)
  <1>1. /\ n \in Nat /\ Len(r) = n + 1 /\ r[n + 1] = f
        /\ \A i \in 1..n : r[i] = s[i]
    BY PushFrame, LenProperties
  <1> HIDE DEF r, n
  <1>2. WorldAt(r, v, n + 2) = v /\ WorldAt(r, v, n + 1) = f.saved
    BY <1>1 DEF WorldAt
  <1>3. \A j \in 1..n : WorldAt(r, v, j) = WorldAt(s, wld, j)
    BY <1>1 DEF WorldAt, n
  <1>4. WorldAt(s, wld, n + 1) = wld
    BY <1>1 DEF WorldAt, n
  <1>5. /\ \A j \in 1..(n + 1) : Sound(WorldAt(s, wld, j))
        /\ \A j \in 1..(n + 1) : \A i \in 1..(j - 1) :
             s[i].kind = "batch" => OpenIn(s[i], WorldAt(s, wld, j))
        /\ \A i \in 1..n : s[i].kind = "batch" => Key(s[i]) \notin s[i].saved.used
    BY DEF ReplayInvOn, n
  <1>6. /\ Sound(wld) => Sound(v)
        /\ \A g : OpenIn(g, wld) => OpenIn(g, v)
    BY DEF Sound, OpenIn
  <1>7. /\ Sound(wld) => Sound(f.saved)
        /\ \A g : OpenIn(g, wld) => OpenIn(g, f.saved)
    BY EvidenceDecides
  <1>8. ASSUME NEW j \in 1..(n + 2)
        PROVE  /\ Sound(WorldAt(r, v, j))
               /\ \A i \in 1..(j - 1) : r[i].kind = "batch" => OpenIn(r[i], WorldAt(r, v, j))
    <2>1. CASE j \in 1..n
      BY <1>1, <1>3, <1>5, <2>1
    <2>2. CASE j = n + 1
      BY <1>1, <1>2, <1>4, <1>5, <1>7, <2>2
    <2>3. CASE j = n + 2
      <3>1. Sound(v)
        BY <1>1, <1>4, <1>5, <1>6
      <3>2. ASSUME NEW i \in 1..(n + 1), r[i].kind = "batch" PROVE OpenIn(r[i], v)
        <4>1. CASE i \in 1..n
          <5>1. OpenIn(s[i], wld)
            BY <1>1, <1>4, <1>5, <3>2, <4>1
          <5> QED BY <1>1, <1>6, <4>1, <5>1
        <4>2. CASE i = n + 1
          BY <1>1, <3>2, <4>2
        <4> QED BY <1>1, <4>1, <4>2
      <3> QED BY <1>1, <1>2, <2>3, <3>1, <3>2
    <2> QED BY <1>1, <2>1, <2>2, <2>3
  <1>9. ASSUME NEW i \in 1..(n + 1), r[i].kind = "batch"
        PROVE  Key(r[i]) \notin r[i].saved.used
    BY <1>1, <1>5, <1>9 DEF SameEvidence
  <1>10. ReplayInvOn(r, v)
    BY <1>1, <1>8, <1>9 DEF ReplayInvOn
  <1> QED BY <1>10 DEF r

(***************************************************************************)
(* The batch on top moves to its next entry, and may record the success of *)
(* the entry it leaves.  No frame below it has the same key: theirs were   *)
(* used when it was entered, its own was not.                              *)
(***************************************************************************)
LEMMA AdvanceReplayInv ==
  ASSUME NEW s \in Seq(Frame), NEW wld \in World, NEW v, s # <<>>, ReplayInvOn(s, wld),
         s[Len(s)].kind = "batch",
         v.used = wld.used,
         \/ v.runs = wld.runs
         \/ v.runs = [wld.runs EXCEPT ![EntryDigest(s[Len(s)])] = @ + 1]
  PROVE  ReplayInvOn([s EXCEPT ![Len(s)].next = @ + 1], v)
  <1> DEFINE n == Len(s)
             f == s[n]
             r == [s EXCEPT ![n].next = @ + 1]
             g == [f EXCEPT !.next = @ + 1]
             e == EntryDigest(f)
  <1>1. n \in Nat \ {0} /\ f \in Frame
    BY PopFrame
  <1>2. /\ f.next \in Nat \ {0}
        /\ g.next = f.next + 1 /\ g.kind = f.kind /\ g.saved = f.saved
        /\ Key(g) = Key(f)
    BY <1>1 DEF Frame, Key
  <1>3. /\ Len(r) = n /\ r[n] = g
        /\ \A i \in 1..(n - 1) : r[i] = s[i]
    BY <1>1, ExceptSeq
  <1>4. e.index = f.next - 1 /\ KeyOf(e) = Key(f)
    BY DEF EntryDigest, KeyOf, Key
  <1>5. wld.runs \in [Signed -> Nat]
    BY DEF World
  <1>6. \A a \in Signed : a.index \in Nat
    BY ConstantsAssumption DEF Authorization
  <1>7. /\ Sound(wld) /\ OpenIn(f, wld)
        /\ \A i \in 1..(n - 1) : s[i].kind = "batch" => OpenIn(s[i], wld)
        /\ \A i \in 1..(n - 1) : s[i].kind = "batch" => OpenIn(s[i], f.saved)
        /\ Key(f) \notin f.saved.used
    BY <1>1 DEF ReplayInvOn, WorldAt
  <1>8. \A a \in Signed : v.runs[a] = wld.runs[a] \/ (a = e /\ v.runs[a] = wld.runs[a] + 1)
    BY <1>5
  <1>9. f.kind = "batch"
    OBVIOUS
  <1>10. v.used = wld.used
    OBVIOUS
  <1> HIDE DEF n, f, r, g, e
  <1>11. Sound(v)
    <2> SUFFICES ASSUME NEW a \in Signed
                 PROVE  v.runs[a] <= 1 /\ (v.runs[a] > 0 => KeyOf(a) \in v.used)
      BY DEF Sound
    <2>1. CASE v.runs[a] = wld.runs[a]
      BY <1>7, <1>10, <2>1 DEF Sound
    <2>2. CASE a = e /\ v.runs[a] = wld.runs[a] + 1
      <3>1. KeyOf(a) = Key(f) /\ a.index = f.next - 1
        BY <1>4, <2>2
      <3>2. ~(wld.runs[a] > 0)
        BY <1>2, <1>7, <3>1 DEF OpenIn
      <3>3. wld.runs[a] = 0
        BY <1>5, <3>2
      <3> QED BY <1>7, <1>10, <2>2, <3>1, <3>3 DEF OpenIn
    <2> QED BY <1>8, <2>1, <2>2
  <1>12. OpenIn(g, v)
    <2>1. Key(g) \in v.used
      BY <1>2, <1>7, <1>10 DEF OpenIn
    <2>2. ASSUME NEW a \in Signed, KeyOf(a) = Key(g), v.runs[a] > 0
          PROVE  a.index < g.next - 1
      <3>1. CASE v.runs[a] = wld.runs[a]
        <4>1. a.index < f.next - 1
          BY <1>2, <1>7, <2>2, <3>1 DEF OpenIn
        <4> QED BY <1>2, <1>6, <4>1
      <3>2. CASE a = e
        BY <1>2, <1>4, <3>2
      <3> QED BY <1>8, <3>1, <3>2
    <2> QED BY <2>1, <2>2 DEF OpenIn
  <1>13. ASSUME NEW i \in 1..(n - 1), s[i].kind = "batch" PROVE OpenIn(s[i], v)
    <2>1. Key(s[i]) # Key(f)
      BY <1>7, <1>13 DEF OpenIn
    <2>2. ASSUME NEW a \in Signed, KeyOf(a) = Key(s[i]), v.runs[a] > 0
          PROVE  a.index < s[i].next - 1
      <3>1. v.runs[a] = wld.runs[a]
        BY <1>4, <1>8, <2>1, <2>2
      <3> QED BY <1>7, <1>13, <2>2, <3>1 DEF OpenIn
    <2> QED BY <1>7, <1>10, <1>13, <2>2 DEF OpenIn
  <1>14. /\ WorldAt(r, v, n + 1) = v
         /\ WorldAt(r, v, n) = f.saved
         /\ \A j \in 1..(n - 1) : WorldAt(r, v, j) = WorldAt(s, wld, j)
         /\ f.saved = WorldAt(s, wld, n)
    BY <1>1, <1>2, <1>3 DEF WorldAt, n, f
  <1>15. /\ \A j \in 1..n : Sound(WorldAt(s, wld, j))
         /\ \A j \in 1..n : \A i \in 1..(j - 1) :
              s[i].kind = "batch" => OpenIn(s[i], WorldAt(s, wld, j))
         /\ \A i \in 1..n : s[i].kind = "batch" => Key(s[i]) \notin s[i].saved.used
    BY <1>1 DEF ReplayInvOn, n
  <1>16. ASSUME NEW j \in 1..(n + 1)
         PROVE  /\ Sound(WorldAt(r, v, j))
                /\ \A i \in 1..(j - 1) : r[i].kind = "batch" => OpenIn(r[i], WorldAt(r, v, j))
    <2>1. CASE j = n + 1
      BY <1>1, <1>3, <1>11, <1>12, <1>13, <1>14, <2>1
    <2>2. CASE j \in 1..n
      <3>1. WorldAt(r, v, j) = WorldAt(s, wld, j)
        BY <1>1, <1>14, <2>2
      <3>2. \A i \in 1..(j - 1) : r[i] = s[i]
        BY <1>1, <1>3, <2>2
      <3> QED BY <1>15, <2>2, <3>1, <3>2
    <2> QED BY <1>1, <2>1, <2>2
  <1>17. ASSUME NEW i \in 1..n, r[i].kind = "batch"
         PROVE  Key(r[i]) \notin r[i].saved.used
    BY <1>1, <1>2, <1>3, <1>7, <1>15, <1>17
  <1>18. ReplayInvOn(r, v)
    BY <1>3, <1>16, <1>17 DEF ReplayInvOn
  <1> QED BY <1>18 DEF r, n
-----------------------------------------------------------------------------
LEMMA InitReplay == Init => ReplayInv
  <1> SUFFICES ASSUME Init PROVE ReplayInv
    OBVIOUS
  <1>1. stack = <<>> /\ Len(stack) = 0 /\ world = GenesisWorld
    BY EmptySeq DEF Init
  <1>2. Sound(world)
    BY <1>1 DEF Sound, GenesisWorld
  <1> QED BY <1>1, <1>2 DEF ReplayInv, ReplayInvOn, WorldAt

(* A step that leaves the stack alone, or pops it, with the evidence of    *)
(* the current world or of the snapshot it restores.                       *)
LEMMA StackKept ==
  ASSUME TypeOK, ReplayInv, UNCHANGED stack, SameEvidence(world', world)
  PROVE  ReplayInv'
  BY KeepReplayInv DEF TypeOK, ReplayInv

LEMMA StackPopped ==
  ASSUME TypeOK, ReplayInv, stack # <<>>, stack' = Below,
         SameEvidence(world', world) \/ world' = Top.saved
  PROVE  ReplayInv'
  BY PopReplayInv DEF TypeOK, ReplayInv, Below, Top, SameEvidence

(* A call pushes two frames that are no batch, and counts nothing.         *)
LEMMA StackPushedTwice ==
  ASSUME TypeOK, ReplayInv, NEW f \in Frame, NEW g \in Frame,
         stack' = Append(Append(stack, f), g),
         f.kind # "batch", g.kind # "batch",
         SameEvidence(f.saved, world), SameEvidence(g.saved, world),
         SameEvidence(world', world)
  PROVE  ReplayInv'
  <1>1. ReplayInvOn(Append(stack, f), world)
    BY PushReplayInv DEF TypeOK, ReplayInv
  <1>2. Append(stack, f) \in Seq(Frame)
    BY PushFrame DEF TypeOK
  <1>3. ReplayInvOn(Append(Append(stack, f), g), world')
    BY <1>1, <1>2, PushReplayInv DEF SameEvidence
  <1> QED BY <1>3 DEF ReplayInv

LEMMA EntryAdvanced ==
  ASSUME TypeOK, ReplayInv, Running("batch"), NextEntry, world'.used = world.used,
         \/ world'.runs = world.runs
         \/ world'.runs = [world.runs EXCEPT ![EntryDigest(Top)] = @ + 1]
  PROVE  ReplayInv'
  <1>1. ReplayInvOn([stack EXCEPT ![Len(stack)].next = @ + 1], world')
    BY AdvanceReplayInv DEF TypeOK, ReplayInv, Running, Top
  <1> QED BY <1>1 DEF NextEntry, ReplayInv

LEMMA ContractReplay == TypeOK /\ ReplayInv /\ Contract => ReplayInv'
  <1> SUFFICES ASSUME TypeOK, ReplayInv, Contract PROVE ReplayInv'
    OBVIOUS
  <1>0. world \in World /\ stack \in Seq(Frame)
    BY DEF TypeOK
  <1>1. ASSUME NEW d \in Dispatchers, NEW t \in Sponsors, NEW b \in BatchIds,
               NEW ops \in Batches, ExecuteBatch(d, t, b, ops)
        PROVE  ReplayInv'
    <2> DEFINE f == BatchFrame(world, d, t, b, ops)
    <2>1. ops \in Seq(Ops)
      BY SeqDef, ConstantsAssumption DEF Batches
    <2>2. f \in Frame
      BY <1>0, <2>1, NewFrames
    <2>3. f.kind = "batch" /\ f.saved = world /\ Key(f) = <<d, t, b>> /\ f.next = 1
      BY DEF BatchFrame, Key
    <2>4. world'.used = world.used \cup {<<d, t, b>>} /\ world'.runs = world.runs
      BY <1>0, <1>1 DEF ExecuteBatch, World
    <2>5. <<d, t, b>> \notin world.used
      BY <1>1 DEF ExecuteBatch, BatchUnused
    <2>6. stack' = Append(stack, f)
      BY <1>1 DEF ExecuteBatch
    <2>7. Sound(world)
      <3>1. Len(stack) \in Nat /\ WorldAt(stack, world, Len(stack) + 1) = world
        BY <1>0, LenProperties DEF WorldAt
      <3> QED BY <3>1 DEF ReplayInv, ReplayInvOn
    <2>8. OpenIn(f, world')
      BY <2>3, <2>4, <2>5, <2>7 DEF OpenIn, Sound
    <2> HIDE DEF f
    <2>9. SameEvidence(f.saved, world)
      BY <2>3 DEF SameEvidence
    <2>10. Key(f) \notin world.used /\ world.used \subseteq world'.used
      BY <2>3, <2>4, <2>5
    <2>11. ReplayInvOn(stack, world)
      BY DEF ReplayInv
    <2>12. ReplayInvOn(Append(stack, f), world')
      BY <1>0, <2>2, <2>4, <2>8, <2>9, <2>10, <2>11, PushReplayInv
    <2> QED BY <2>6, <2>12 DEF ReplayInv
  <1>a. MarkSeen.used = world.used /\ MarkSeen.runs = world.runs
    BY <1>0 DEF MarkSeen, World
  <1>2. CASE RefuseEntry
    BY <1>2, EntryAdvanced DEF RefuseEntry, AtEntry
  <1>3. CASE FailEntry
    BY <1>3, <1>a, EntryAdvanced DEF FailEntry, AtEntry
  <1>4. CASE CallWallet
    <2> DEFINE op == Entry(Top)
               w  == EntryWallet(Top)
               opened == OpenContext(MarkSeen, w, op)
    <2>1. op \in Ops /\ w \in Wallets /\ MarkSeen \in World
      BY <1>0, <1>4, TopBatch, WorldUpdates DEF CallWallet, AtEntry, MarkSeen
    <2>2. opened \in World
      BY <2>1, WorldUpdates
    <2>3. MintFrame(MarkSeen, w, op) \in Frame /\ ExternalFrame(opened) \in Frame
      BY <2>1, <2>2, NewFrames
    <2>4. SameEvidence(opened, world) /\ SameEvidence(PayMintValue(opened, w, op), world)
      BY <1>a, <2>1 DEF SameEvidence, OpenContext, PayMintValue, World
    <2>5. /\ MintFrame(MarkSeen, w, op).saved = MarkSeen
          /\ MintFrame(MarkSeen, w, op).kind # "batch"
          /\ ExternalFrame(opened).saved = opened
          /\ ExternalFrame(opened).kind # "batch"
      BY DEF MintFrame, ExternalFrame
    <2>6. /\ world' = PayMintValue(opened, w, op)
          /\ stack' = Append(Append(stack, MintFrame(MarkSeen, w, op)), ExternalFrame(opened))
      BY <1>4 DEF CallWallet
    <2>7. SameEvidence(MarkSeen, world)
      BY <1>a DEF SameEvidence
    <2> HIDE DEF op, w, opened
    <2> QED BY <2>3, <2>4, <2>5, <2>6, <2>7, StackPushedTwice
  <1>5. CASE FinishMint
    <2>1. SameEvidence(world', world)
      BY <1>0, <1>5 DEF FinishMint, ClearMintContext, SameEvidence, World
    <2> QED BY <1>5, <2>1, StackPopped DEF FinishMint, Running
  <1>6. CASE RevertMint
    BY <1>6, StackPopped DEF RevertMint, RevertTop, Running
  <1>7. CASE EmitWalletExecution
    BY <1>0, <1>7, EntryAdvanced DEF EmitWalletExecution, World
  <1>8. CASE FinishBatch
    <2>1. SameEvidence(world', world)
      BY <1>0, <1>8 DEF FinishBatch, SameEvidence, World
    <2> QED BY <1>8, <2>1, StackPopped DEF FinishBatch, Running
  <1>9. CASE BatchOutOfGas
    BY <1>9, StackPopped DEF BatchOutOfGas, Running
  <1>10. ASSUME NEW w \in Wallets, NEW isNft \in BOOLEAN, NEW isMint \in BOOLEAN,
                NEW units \in 1..MaxSupply, ForwardReceipt(w, isNft, isMint, units)
         PROVE  ReplayInv'
    <2> DEFINE credited == Credit(world, w, isNft, units)
               counted == [credited EXCEPT !.ctx[w].forwarded = @ + units]
    <2>1. units \in Nat
      BY ConstantsAssumption
    <2>2. credited \in World /\ SameEvidence(credited, world)
      <3>1. credited \in World
        BY <1>0, <2>1, TokenUpdates
      <3>2. credited.used = world.used /\ credited.runs = world.runs
        BY <1>0 DEF Credit, World
      <3> QED BY <3>1, <3>2 DEF SameEvidence
    <2> HIDE DEF credited
    <2>3. counted \in World
      BY <2>1, <2>2, TokenUpdates
    <2>4. SameEvidence(counted, world)
      BY <2>2 DEF SameEvidence, World
    <2> HIDE DEF counted
    <2>5. SameEvidence(Forward(counted, w, isNft, units), world)
      BY <2>3, <2>4 DEF Forward, SameEvidence, World
    <2>6. CallbackFrame(world, w) \in Frame /\ ExternalFrame(counted) \in Frame
      BY <1>0, <2>3, NewFrames
    <2>7. /\ CallbackFrame(world, w).saved = world /\ CallbackFrame(world, w).kind # "batch"
          /\ ExternalFrame(counted).saved = counted /\ ExternalFrame(counted).kind # "batch"
      BY DEF CallbackFrame, ExternalFrame
    <2>8. /\ world' = Forward(counted, w, isNft, units)
          /\ stack' = Append(Append(stack, CallbackFrame(world, w)), ExternalFrame(counted))
      BY <1>10 DEF ForwardReceipt, counted, credited
    <2>9. SameEvidence(world, world)
      BY DEF SameEvidence
    <2> QED BY <2>4, <2>5, <2>6, <2>7, <2>8, <2>9, StackPushedTwice
  <1>11. CASE FinishCallback
    BY <1>11, StackPopped DEF FinishCallback, Running, SameEvidence
  <1>12. CASE RevertCallback
    BY <1>12, StackPopped DEF RevertCallback, Running
  <1> QED BY <1>1, <1>2, <1>3, <1>4, <1>5, <1>6, <1>7, <1>8, <1>9, <1>10, <1>11, <1>12
          DEF Contract

LEMMA EnvironmentReplay == TypeOK /\ ReplayInv /\ Environment => ReplayInv'
  <1> SUFFICES ASSUME TypeOK, ReplayInv, Environment PROVE ReplayInv'
    OBVIOUS
  <1>0. world \in World
    BY DEF TypeOK
  <1>1. ASSUME NEW w \in Wallets, NEW units \in 1..MaxSupply, KeepReceipt(w, units)
        PROVE  ReplayInv'
    BY <1>0, <1>1, StackKept DEF KeepReceipt, SameEvidence, World
  <1>2. ASSUME NEW w \in Wallets, NEW amount \in 1..MaxDonation, SendEther(w, amount)
        PROVE  ReplayInv'
    BY <1>0, <1>2, StackKept DEF SendEther, SameEvidence, World
  <1>3. CASE ExternalReturn
    <2>1. SameEvidence(world', world)
      BY <1>0, <1>3 DEF ExternalReturn, ClearTransient, SameEvidence, World
    <2> QED BY <1>3, <2>1, StackPopped DEF ExternalReturn, Running
  <1>4. CASE ExternalRevert
    BY <1>4, StackPopped DEF ExternalRevert, Running
  <1>5. CASE BeginTransaction
    <2> DEFINE f == ExternalFrame(world)
    <2>1. f \in Frame /\ f.kind # "batch" /\ SameEvidence(f.saved, world)
      BY <1>0, NewFrames DEF ExternalFrame, SameEvidence
    <2>2. stack' = Append(stack, f) /\ world' = world
      BY <1>5 DEF BeginTransaction
    <2> HIDE DEF f
    <2>3. ReplayInvOn(Append(stack, f), world')
      BY <2>1, <2>2, PushReplayInv DEF ReplayInv, TypeOK
    <2> QED BY <2>2, <2>3 DEF ReplayInv
  <1>6. ASSUME NEW w \in Wallets, NEW d \in Dispatchers \cup {NoDelegate}, Delegate(w, d)
        PROVE  ReplayInv'
    BY <1>6, StackKept DEF Delegate, SameEvidence
  <1>7. CASE Tick
    BY <1>7, StackKept DEF Tick, SameEvidence
  <1> QED BY <1>1, <1>2, <1>3, <1>4, <1>5, <1>6, <1>7 DEF Environment

LEMMA ReplayInvIsEnough == TypeOK /\ ReplayInv => ReplayOnce
  <1> SUFFICES ASSUME TypeOK, ReplayInv PROVE ReplayOnce
    OBVIOUS
  <1>1. Len(stack) \in Nat /\ WorldAt(stack, world, Len(stack) + 1) = world
    BY LenProperties DEF WorldAt, TypeOK
  <1>2. Sound(world)
    BY <1>1 DEF ReplayInv, ReplayInvOn
  <1> QED BY <1>2 DEF Sound, ReplayOnce

LEMMA ReplayInvariant == Spec => []ReplayInv
  <1>1. TypeOK /\ ReplayInv /\ [Next]_vars => ReplayInv'
    <2>1. ASSUME TypeOK, ReplayInv, UNCHANGED vars PROVE ReplayInv'
      BY <2>1, StackKept DEF vars, SameEvidence
    <2> QED BY <2>1, ContractReplay, EnvironmentReplay DEF Next
  <1> QED BY <1>1, InitReplay, TypeCorrect, PTL DEF Spec

(***************************************************************************)
(* A wallet's signature yields at most one success, whatever the mint      *)
(* targets, the token contracts, the recipients and the sponsors do, for   *)
(* any number of batches and any depth of reentrancy.                      *)
(***************************************************************************)
THEOREM NoReplay == Spec => []ReplayOnce
  BY ReplayInvariant, TypeCorrect, ReplayInvIsEnough, PTL
-----------------------------------------------------------------------------
(***************************************************************************)
(* Why a wallet succeeds once in a batch.  While a batch's frame is open   *)
(* its dispatcher is guarded, so no other batch overwrites the dispatcher's*)
(* marks: they name every wallet the batch has counted a success for.      *)
(* While an entry's wallet call runs, the entry's wallet is marked and has *)
(* no success yet; the loop made sure of it before it called.              *)
(***************************************************************************)
UniqueIn(wld) ==
  \A a, b \in Signed :
    a # b /\ KeyOf(a) = KeyOf(b) /\ WalletOf[a.op] = WalletOf[b.op]
      => ~(wld.runs[a] > 0 /\ wld.runs[b] > 0)

MarkedIn(f, wld) ==
  /\ f.dispatcher \in wld.guard
  /\ \A a \in Signed : KeyOf(a) = Key(f) /\ wld.runs[a] > 0
       => wld.seen[f.dispatcher][WalletOf[a.op]] = Key(f)

CallingIn(f, wld) ==
  /\ wld.seen[f.dispatcher][EntryWallet(f)] = Key(f)
  /\ \A a \in Signed : KeyOf(a) = Key(f) /\ WalletOf[a.op] = EntryWallet(f)
       => ~(wld.runs[a] > 0)

OnceInvOn(s, wld) ==
  /\ \A j \in 1..(Len(s) + 1) : UniqueIn(WorldAt(s, wld, j))
  /\ \A j \in 1..(Len(s) + 1) : \A i \in 1..(j - 1) :
       s[i].kind = "batch" =>
         /\ MarkedIn(s[i], WorldAt(s, wld, j))
         /\ i < Len(s) => CallingIn(s[i], WorldAt(s, wld, j))
  /\ \A i, k \in 1..Len(s) :
       i < k /\ s[i].kind = "batch" /\ s[k].kind = "batch" => s[i].dispatcher # s[k].dispatcher

OnceInv ==
  /\ OnceInvOn(stack, world)
  /\ Running("batch") /\ ret # "none" => CallingIn(Top, world)
-----------------------------------------------------------------------------
(* What the invariant asks of a world in which the first n frames are open *)
(* and none of them is at the start of an entry.                           *)
WorldOnce(s, n, wld) ==
  /\ UniqueIn(wld)
  /\ \A i \in 1..n : s[i].kind = "batch" => MarkedIn(s[i], wld) /\ CallingIn(s[i], wld)

SameMarks(v, wld) == SameEvidence(v, wld) /\ v.seen = wld.seen /\ v.guard = wld.guard

LEMMA MarksDecide ==
  ASSUME NEW v, NEW wld, SameMarks(v, wld)
  PROVE  /\ UniqueIn(wld) => UniqueIn(v)
         /\ \A f : MarkedIn(f, wld) => MarkedIn(f, v)
         /\ \A f : CallingIn(f, wld) => CallingIn(f, v)
         /\ \A s, n : WorldOnce(s, n, wld) => WorldOnce(s, n, v)
  <1>1. UniqueIn(wld) => UniqueIn(v)
    BY DEF SameMarks, SameEvidence, UniqueIn
  <1>2. \A f : MarkedIn(f, wld) => MarkedIn(f, v)
    BY DEF SameMarks, SameEvidence, MarkedIn
  <1>3. \A f : CallingIn(f, wld) => CallingIn(f, v)
    BY DEF SameMarks, SameEvidence, CallingIn
  <1> QED BY <1>1, <1>2, <1>3 DEF WorldOnce

(* A batch that moves to its next entry keeps its identity and leaves the  *)
(* frames below it alone.                                                  *)
LEMMA AdvanceFrame ==
  ASSUME NEW s \in Seq(Frame), s # <<>>, s[Len(s)].kind = "batch"
  PROVE  LET r == [s EXCEPT ![Len(s)].next = @ + 1]
         IN /\ Len(s) \in Nat \ {0} /\ Len(r) = Len(s)
            /\ \A i \in 1..(Len(s) - 1) : r[i] = s[i]
            /\ r[Len(s)].kind = "batch" /\ r[Len(s)].dispatcher = s[Len(s)].dispatcher
            /\ r[Len(s)].saved = s[Len(s)].saved
            /\ Key(r[Len(s)]) = Key(s[Len(s)])
  <1> DEFINE n == Len(s)
             f == s[n]
             r == [s EXCEPT ![n].next = @ + 1]
             g == [f EXCEPT !.next = @ + 1]
  <1>1. n \in Nat \ {0} /\ f \in Frame
    BY PopFrame
  <1>2. /\ g.kind = f.kind /\ g.saved = f.saved /\ g.dispatcher = f.dispatcher
        /\ Key(g) = Key(f)
    BY <1>1 DEF Frame, Key
  <1>3. /\ Len(r) = n /\ r[n] = g
        /\ \A i \in 1..(n - 1) : r[i] = s[i]
    BY <1>1, ExceptSeq
  <1> QED BY <1>1, <1>2, <1>3

(* What the invariant gives of the worlds of the frame on top.             *)
LEMMA TopWorlds ==
  ASSUME NEW s \in Seq(Frame), NEW wld, OnceInvOn(s, wld)
  PROVE  /\ UniqueIn(wld)
         /\ s = <<>> \/ s[Len(s)].kind # "batch" => WorldOnce(s, Len(s), wld)
         /\ s # <<>> => /\ WorldOnce(s, Len(s) - 1, wld)
                        /\ WorldOnce(s, Len(s) - 1, s[Len(s)].saved)
                        /\ s[Len(s)].kind = "batch" => MarkedIn(s[Len(s)], wld)
  <1>1. Len(s) \in Nat /\ (s # <<>> => Len(s) > 0) /\ (s = <<>> => Len(s) = 0)
    BY EmptySeq, LenProperties
  <1>2. /\ WorldAt(s, wld, Len(s) + 1) = wld
        /\ s # <<>> => WorldAt(s, wld, Len(s)) = s[Len(s)].saved
    BY <1>1 DEF WorldAt
  <1>3. UniqueIn(wld)
    BY <1>1, <1>2 DEF OnceInvOn
  <1>4. \A i \in 1..Len(s) : s[i].kind = "batch" =>
          MarkedIn(s[i], wld) /\ (i < Len(s) => CallingIn(s[i], wld))
    BY <1>1, <1>2 DEF OnceInvOn
  <1>5. s = <<>> \/ s[Len(s)].kind # "batch" => WorldOnce(s, Len(s), wld)
    BY <1>1, <1>3, <1>4 DEF WorldOnce
  <1>6. ASSUME s # <<>>
        PROVE  /\ WorldOnce(s, Len(s) - 1, wld)
               /\ WorldOnce(s, Len(s) - 1, s[Len(s)].saved)
    <2>1. \A i \in 1..(Len(s) - 1) : i \in 1..Len(s) /\ i < Len(s)
      BY <1>1
    <2>2. WorldOnce(s, Len(s) - 1, wld)
      BY <1>3, <1>4, <2>1 DEF WorldOnce
    <2>3. UniqueIn(s[Len(s)].saved)
      BY <1>1, <1>2, <1>6 DEF OnceInvOn
    <2>4. \A i \in 1..(Len(s) - 1) : s[i].kind = "batch" =>
            MarkedIn(s[i], s[Len(s)].saved) /\ CallingIn(s[i], s[Len(s)].saved)
      BY <1>1, <1>2, <1>6, <2>1 DEF OnceInvOn
    <2> QED BY <2>2, <2>3, <2>4 DEF WorldOnce
  <1> QED BY <1>1, <1>3, <1>4, <1>5, <1>6

LEMMA KeepOnce ==
  ASSUME NEW s \in Seq(Frame), NEW wld, NEW v, OnceInvOn(s, wld), SameMarks(v, wld)
  PROVE  OnceInvOn(s, v)
  <1>1. Len(s) \in Nat
    BY LenProperties
  <1>2. ASSUME NEW j \in 1..(Len(s) + 1)
        PROVE  /\ UniqueIn(WorldAt(s, wld, j)) => UniqueIn(WorldAt(s, v, j))
               /\ \A f : MarkedIn(f, WorldAt(s, wld, j)) => MarkedIn(f, WorldAt(s, v, j))
               /\ \A f : CallingIn(f, WorldAt(s, wld, j)) => CallingIn(f, WorldAt(s, v, j))
    BY <1>1, MarksDecide DEF WorldAt
  <1> QED BY <1>2 DEF OnceInvOn

LEMMA PopOnce ==
  ASSUME NEW s \in Seq(Frame), NEW wld, NEW v, s # <<>>, OnceInvOn(s, wld),
         WorldOnce(s, Len(s) - 1, v)
  PROVE  OnceInvOn(SubSeq(s, 1, Len(s) - 1), v)
  <1> DEFINE r == SubSeq(s, 1, Len(s) - 1)
             n == Len(s)
  <1>1. /\ n \in Nat \ {0} /\ Len(r) = n - 1
        /\ \A i \in 1..(n - 1) : r[i] = s[i]
        /\ \A j \in 1..(n - 1) : WorldAt(r, v, j) = WorldAt(s, wld, j)
        /\ WorldAt(r, v, n) = v
    BY PopFrame DEF WorldAt
  <1>2. WorldOnce(s, n - 1, v)
    OBVIOUS
  <1> HIDE DEF r
  <1>3. ASSUME NEW j \in 1..n
        PROVE  /\ UniqueIn(WorldAt(r, v, j))
               /\ \A i \in 1..(j - 1) : r[i].kind = "batch" =>
                    MarkedIn(r[i], WorldAt(r, v, j)) /\ CallingIn(r[i], WorldAt(r, v, j))
    <2>1. CASE j = n
      BY <1>1, <1>2, <2>1 DEF WorldOnce
    <2>2. CASE j \in 1..(n - 1)
      <3>1. \A i \in 1..(j - 1) : i \in 1..(n - 1) /\ i < n /\ r[i] = s[i]
        BY <1>1, <2>2
      <3>2. j \in 1..(n + 1) /\ WorldAt(r, v, j) = WorldAt(s, wld, j)
        BY <1>1, <2>2
      <3> QED BY <3>1, <3>2 DEF OnceInvOn, n
    <2> QED BY <1>1, <2>1, <2>2
  <1>4. \A i, k \in 1..(n - 1) :
          i < k /\ r[i].kind = "batch" /\ r[k].kind = "batch" => r[i].dispatcher # r[k].dispatcher
    BY <1>1 DEF OnceInvOn, n
  <1>5. Len(r) + 1 = n
    BY <1>1
  <1>6. OnceInvOn(r, v)
    <2> HIDE DEF n
    <2> QED BY <1>1, <1>3, <1>4, <1>5 DEF OnceInvOn
  <1> QED BY <1>6 DEF r

LEMMA PushOnce ==
  ASSUME NEW s \in Seq(Frame), NEW wld, NEW v, NEW f \in Frame, OnceInvOn(s, wld),
         WorldOnce(s, Len(s), f.saved), WorldOnce(s, Len(s), v),
         f.kind = "batch" =>
           /\ MarkedIn(f, v)
           /\ \A i \in 1..Len(s) : s[i].kind = "batch" => s[i].dispatcher # f.dispatcher
  PROVE  OnceInvOn(Append(s, f), v)
  <1> DEFINE r == Append(s, f)
             n == Len(s)
  <1>1. /\ n \in Nat /\ Len(r) = n + 1
        /\ (\A i \in 1..n : r[i] = s[i]) /\ r[n + 1] = f
        /\ \A j \in 1..n : WorldAt(r, v, j) = WorldAt(s, wld, j)
        /\ WorldAt(r, v, n + 1) = f.saved /\ WorldAt(r, v, n + 2) = v
    BY PushFrame, LenProperties DEF WorldAt
  <1>2. WorldOnce(s, n, f.saved) /\ WorldOnce(s, n, v)
    OBVIOUS
  <1>3. f.kind = "batch" =>
           /\ MarkedIn(f, v)
           /\ \A i \in 1..n : s[i].kind = "batch" => s[i].dispatcher # f.dispatcher
    OBVIOUS
  <1> HIDE DEF r
  <1>4. ASSUME NEW j \in 1..(n + 2)
        PROVE  /\ UniqueIn(WorldAt(r, v, j))
               /\ \A i \in 1..(j - 1) : r[i].kind = "batch" =>
                    /\ MarkedIn(r[i], WorldAt(r, v, j))
                    /\ i < n + 1 => CallingIn(r[i], WorldAt(r, v, j))
    <2>1. CASE j = n + 2
      BY <1>1, <1>2, <1>3, <2>1 DEF WorldOnce
    <2>2. CASE j = n + 1
      BY <1>1, <1>2, <2>2 DEF WorldOnce
    <2>3. CASE j \in 1..n
      <3>1. \A i \in 1..(j - 1) : i \in 1..n /\ i < n /\ r[i] = s[i]
        BY <1>1, <2>3
      <3>2. j \in 1..(n + 1) /\ WorldAt(r, v, j) = WorldAt(s, wld, j)
        BY <1>1, <2>3
      <3> QED BY <3>1, <3>2 DEF OnceInvOn, n
    <2> QED BY <1>1, <2>1, <2>2, <2>3
  <1>5. \A i, k \in 1..(n + 1) :
          i < k /\ r[i].kind = "batch" /\ r[k].kind = "batch" => r[i].dispatcher # r[k].dispatcher
    <2> SUFFICES ASSUME NEW i \in 1..(n + 1), NEW k \in 1..(n + 1), i < k,
                        r[i].kind = "batch", r[k].kind = "batch"
                 PROVE  r[i].dispatcher # r[k].dispatcher
      OBVIOUS
    <2>1. i \in 1..n /\ (k \in 1..n \/ k = n + 1)
      BY <1>1
    <2> QED BY <1>1, <1>3, <2>1 DEF OnceInvOn, n
  <1>6. Len(r) + 1 = n + 2
    BY <1>1
  <1>7. OnceInvOn(r, v)
    <2> HIDE DEF n
    <2> QED BY <1>1, <1>4, <1>5, <1>6 DEF OnceInvOn
  <1> QED BY <1>7 DEF r

LEMMA AdvanceOnce ==
  ASSUME NEW s \in Seq(Frame), NEW wld, NEW v, s # <<>>, OnceInvOn(s, wld),
         s[Len(s)].kind = "batch",
         WorldOnce(s, Len(s) - 1, v), MarkedIn(s[Len(s)], v)
  PROVE  OnceInvOn([s EXCEPT ![Len(s)].next = @ + 1], v)
  <1> DEFINE n == Len(s)
             f == s[n]
             r == [s EXCEPT ![n].next = @ + 1]
  <1>1. /\ n \in Nat \ {0} /\ Len(r) = n
        /\ \A i \in 1..(n - 1) : r[i] = s[i]
        /\ r[n].kind = "batch" /\ r[n].dispatcher = f.dispatcher
        /\ r[n].saved = f.saved /\ Key(r[n]) = Key(f)
    BY AdvanceFrame
  <1>2. WorldOnce(s, n - 1, v) /\ f.kind = "batch" /\ MarkedIn(f, v)
    OBVIOUS
  <1> HIDE DEF r
  <1>a. /\ \A j \in 1..n : WorldAt(r, v, j) = WorldAt(s, wld, j)
        /\ WorldAt(r, v, n + 1) = v
    BY <1>1 DEF WorldAt
  <1>3. MarkedIn(r[n], v)
    BY <1>1, <1>2 DEF MarkedIn
  <1>4. ASSUME NEW j \in 1..(n + 1)
        PROVE  /\ UniqueIn(WorldAt(r, v, j))
               /\ \A i \in 1..(j - 1) : r[i].kind = "batch" =>
                    /\ MarkedIn(r[i], WorldAt(r, v, j))
                    /\ i < n => CallingIn(r[i], WorldAt(r, v, j))
    <2>1. CASE j = n + 1
      <3>1. \A i \in 1..n : i \in 1..(n - 1) \/ i = n
        BY <1>1
      <3> QED BY <1>1, <1>a, <1>2, <1>3, <2>1, <3>1 DEF WorldOnce
    <2>2. CASE j \in 1..n
      <3>1. \A i \in 1..(j - 1) : i \in 1..(n - 1) /\ i < n /\ r[i] = s[i]
        BY <1>1, <2>2
      <3>2. j \in 1..(n + 1) /\ WorldAt(r, v, j) = WorldAt(s, wld, j)
        BY <1>1, <1>a, <2>2
      <3> QED BY <3>1, <3>2 DEF OnceInvOn, n
    <2> QED BY <1>1, <2>1, <2>2
  <1>5. \A i, k \in 1..n :
          i < k /\ r[i].kind = "batch" /\ r[k].kind = "batch" => r[i].dispatcher # r[k].dispatcher
    <2> SUFFICES ASSUME NEW i \in 1..n, NEW k \in 1..n, i < k,
                        r[i].kind = "batch", r[k].kind = "batch"
                 PROVE  r[i].dispatcher # r[k].dispatcher
      OBVIOUS
    <2>1. i \in 1..(n - 1) /\ (k \in 1..(n - 1) \/ k = n)
      BY <1>1
    <2>2. /\ s[i].kind = "batch" /\ s[i].dispatcher = r[i].dispatcher
          /\ s[k].kind = "batch" /\ s[k].dispatcher = r[k].dispatcher
      BY <1>1, <1>2, <2>1
    <2> QED BY <2>2 DEF OnceInvOn, n
  <1>6. OnceInvOn(r, v)
    <2> HIDE DEF n
    <2> QED BY <1>1, <1>4, <1>5 DEF OnceInvOn
  <1> QED BY <1>6 DEF r
-----------------------------------------------------------------------------
LEMMA InitOnce == Init => OnceInv
  <1> SUFFICES ASSUME Init PROVE OnceInv
    OBVIOUS
  <1>1. stack = <<>> /\ Len(stack) = 0 /\ world = GenesisWorld
    BY EmptySeq DEF Init
  <1>2. UniqueIn(world)
    BY <1>1 DEF UniqueIn, GenesisWorld
  <1> QED BY <1>1, <1>2 DEF OnceInv, OnceInvOn, WorldAt, Running

LEMMA OnceKept ==
  ASSUME TypeOK, OnceInv, UNCHANGED <<stack, ret>>, SameMarks(world', world)
  PROVE  OnceInv'
  <1>1. OnceInvOn(stack, world')
    BY KeepOnce DEF TypeOK, OnceInv
  <1>2. CallingIn(Top, world) => CallingIn(Top, world')
    BY MarksDecide
  <1> QED BY <1>1, <1>2 DEF OnceInv, Running, Top

LEMMA OncePopped ==
  ASSUME TypeOK, OnceInv, stack # <<>>, stack' = Below,
         WorldOnce(stack, Len(stack) - 1, world')
  PROVE  OnceInv'
  <1>1. OnceInvOn(Below, world')
    BY PopOnce DEF TypeOK, OnceInv, Below
  <1>2. ASSUME Below # <<>>, Below[Len(Below)].kind = "batch"
        PROVE  CallingIn(Below[Len(Below)], world')
    <2>1. /\ Len(Below) = Len(stack) - 1 /\ Len(Below) \in Nat \ {0}
          /\ Below[Len(Below)] = stack[Len(stack) - 1]
          /\ Len(stack) - 1 \in 1..(Len(stack) - 1)
      BY <1>2, TopFrame, EmptySeq
    <2> QED BY <1>2, <2>1 DEF WorldOnce
  <1> QED BY <1>1, <1>2 DEF OnceInv, Running, Top

(* The frame popped gives the world back, or leaves the marks as they are. *)
LEMMA OnceReturned ==
  ASSUME TypeOK, OnceInv, stack # <<>>, stack' = Below,
         SameMarks(world', world) \/ world' = Top.saved
  PROVE  OnceInv'
  <1>1. /\ WorldOnce(stack, Len(stack) - 1, world)
        /\ WorldOnce(stack, Len(stack) - 1, Top.saved)
    BY TopWorlds DEF TypeOK, OnceInv, Top
  <1>2. WorldOnce(stack, Len(stack) - 1, world')
    BY <1>1, MarksDecide
  <1> QED BY <1>2, OncePopped

LEMMA OncePushedTwice ==
  ASSUME TypeOK, OnceInv, NEW f \in Frame, NEW g \in Frame,
         stack' = Append(Append(stack, f), g), ret' = "none",
         f.kind # "batch", g.kind # "batch",
         WorldOnce(stack, Len(stack), f.saved), WorldOnce(stack, Len(stack), g.saved),
         WorldOnce(stack, Len(stack), world')
  PROVE  OnceInv'
  <1> DEFINE s == Append(stack, f)
  <1>1. OnceInvOn(s, world')
    BY PushOnce DEF TypeOK, OnceInv
  <1>2. /\ s \in Seq(Frame) /\ Len(s) = Len(stack) + 1 /\ Len(stack) \in Nat
        /\ (\A i \in 1..Len(stack) : s[i] = stack[i]) /\ s[Len(stack) + 1] = f
    BY PushFrame, LenProperties DEF TypeOK
  <1> HIDE DEF s
  <1>3. \A w : WorldOnce(stack, Len(stack), w) => WorldOnce(s, Len(s), w)
    <2>1. \A i \in 1..Len(s) : i \in 1..Len(stack) \/ i = Len(stack) + 1
      BY <1>2
    <2> QED BY <1>2, <2>1 DEF WorldOnce
  <1>4. OnceInvOn(Append(s, g), world')
    BY <1>1, <1>2, <1>3, PushOnce
  <1> QED BY <1>4 DEF OnceInv, s

LEMMA OnceAdvanced ==
  ASSUME TypeOK, OnceInv, Running("batch"), NextEntry, ret' = "none",
         WorldOnce(stack, Len(stack) - 1, world'), MarkedIn(Top, world')
  PROVE  OnceInv'
  <1>1. OnceInvOn([stack EXCEPT ![Len(stack)].next = @ + 1], world')
    BY AdvanceOnce DEF TypeOK, OnceInv, Running, Top
  <1> QED BY <1>1 DEF OnceInv, NextEntry

(* The batch on top and those below it.                                    *)
LEMMA OnceTopBatch ==
  ASSUME TypeOK, OnceInv, Running("batch")
  PROVE  /\ stack # <<>> /\ Len(stack) \in Nat \ {0}
         /\ MarkedIn(Top, world) /\ UniqueIn(world)
         /\ WorldOnce(stack, Len(stack) - 1, world)
         /\ \A i \in 1..(Len(stack) - 1) : stack[i].kind = "batch" =>
              stack[i] \in Frame /\ stack[i].dispatcher # Top.dispatcher
  <1>1. stack # <<>> /\ Top.kind = "batch"
    BY DEF Running
  <1>2. Len(stack) \in Nat \ {0} /\ \A i \in 1..Len(stack) : stack[i] \in Frame
    BY <1>1, TopFrame, ElementOfSeq DEF TypeOK
  <1>3. MarkedIn(Top, world) /\ UniqueIn(world) /\ WorldOnce(stack, Len(stack) - 1, world)
    BY <1>1, TopWorlds DEF TypeOK, OnceInv, Top
  <1>4. ASSUME NEW i \in 1..(Len(stack) - 1), stack[i].kind = "batch"
        PROVE  stack[i].dispatcher # Top.dispatcher
    <2>1. i \in 1..Len(stack) /\ Len(stack) \in 1..Len(stack) /\ i < Len(stack)
      BY <1>2
    <2> QED BY <1>1, <1>4, <2>1 DEF OnceInv, OnceInvOn, Top
  <1> QED BY <1>1, <1>2, <1>3, <1>4

(* Marking the entry's wallet leaves the marks of the other open batches.  *)
LEMMA MarkSeenOnce ==
  ASSUME TypeOK, OnceInv, AtEntry
  PROVE  /\ WorldOnce(stack, Len(stack) - 1, MarkSeen)
         /\ MarkedIn(Top, MarkSeen)
         /\ ~DuplicateWallet(Top) => CallingIn(Top, MarkSeen)
  <1> DEFINE d == Top.dispatcher
             w == EntryWallet(Top)
  <1>1. Running("batch") /\ Top.next <= Len(Top.ops)
    BY DEF AtEntry
  <1>2. d \in Dispatchers /\ w \in Wallets /\ world \in World
    BY <1>1, TopBatch DEF TypeOK
  <1>3. MarkedIn(Top, world) /\ UniqueIn(world) /\ WorldOnce(stack, Len(stack) - 1, world)
    BY <1>1, OnceTopBatch
  <1>4. \A i \in 1..(Len(stack) - 1) : stack[i].kind = "batch" => stack[i].dispatcher # d
    BY <1>1, OnceTopBatch
  <1>5. /\ MarkSeen.runs = world.runs /\ MarkSeen.guard = world.guard
        /\ MarkSeen.seen[d][w] = Key(Top)
        /\ \A v \in Wallets : MarkSeen.seen[d][v] \in {world.seen[d][v], Key(Top)}
        /\ \A e \in Dispatchers : e # d => MarkSeen.seen[e] = world.seen[e]
    BY <1>2 DEF MarkSeen, World
  <1>6. \A a \in Signed : WalletOf[a.op] \in Wallets
    BY ConstantsAssumption DEF Authorization
  <1>7. UniqueIn(MarkSeen)
    BY <1>3, <1>5 DEF UniqueIn
  <1>8. MarkedIn(Top, MarkSeen)
    BY <1>3, <1>5, <1>6 DEF MarkedIn
  <1>9. ASSUME NEW i \in 1..(Len(stack) - 1), stack[i].kind = "batch"
        PROVE  MarkedIn(stack[i], MarkSeen) /\ CallingIn(stack[i], MarkSeen)
    <2>1. stack[i].dispatcher \in Dispatchers /\ stack[i].dispatcher # d
      BY <1>1, <1>4, <1>9, OnceTopBatch, FrameKinds
    <2>2. MarkSeen.seen[stack[i].dispatcher] = world.seen[stack[i].dispatcher]
      BY <1>5, <2>1
    <2> QED BY <1>3, <1>5, <1>9, <2>2 DEF WorldOnce, MarkedIn, CallingIn
  <1>10. WorldOnce(stack, Len(stack) - 1, MarkSeen)
    BY <1>7, <1>9 DEF WorldOnce
  <1>11. ~DuplicateWallet(Top) => CallingIn(Top, MarkSeen)
    BY <1>3, <1>5 DEF DuplicateWallet, MarkedIn, CallingIn
  <1> QED BY <1>8, <1>10, <1>11

(* The success that is counted is the wallet's first in this batch.        *)
LEMMA EmitOnce ==
  ASSUME TypeOK, OnceInv, Running("batch"), CallingIn(Top, world),
         NEW v, v.seen = world.seen, v.guard = world.guard,
         v.runs = [world.runs EXCEPT ![EntryDigest(Top)] = @ + 1]
  PROVE  WorldOnce(stack, Len(stack) - 1, v) /\ MarkedIn(Top, v)
  <1> DEFINE e == EntryDigest(Top)
  <1>1. KeyOf(e) = Key(Top) /\ WalletOf[e.op] = EntryWallet(Top)
    BY DEF EntryDigest, KeyOf, Key, EntryWallet
  <1>2. \A a \in Signed : a # e => v.runs[a] = world.runs[a]
    BY DEF TypeOK, World
  <1> HIDE DEF e
  <1>3. MarkedIn(Top, world) /\ UniqueIn(world) /\ WorldOnce(stack, Len(stack) - 1, world)
    BY OnceTopBatch
  <1>4. UniqueIn(v)
    <2> SUFFICES ASSUME NEW a \in Signed, NEW b \in Signed, a # b, KeyOf(a) = KeyOf(b),
                        WalletOf[a.op] = WalletOf[b.op], v.runs[a] > 0, v.runs[b] > 0
                 PROVE  FALSE
      BY DEF UniqueIn
    <2>1. a # e /\ b # e
      BY <1>1, <1>2 DEF CallingIn
    <2> QED BY <1>2, <1>3, <2>1 DEF UniqueIn
  <1>5. MarkedIn(Top, v)
    <2> SUFFICES ASSUME NEW a \in Signed, KeyOf(a) = Key(Top), v.runs[a] > 0
                 PROVE  world.seen[Top.dispatcher][WalletOf[a.op]] = Key(Top)
      BY <1>3 DEF MarkedIn
    <2> QED BY <1>1, <1>2, <1>3 DEF MarkedIn, CallingIn
  <1>6. ASSUME NEW i \in 1..(Len(stack) - 1), stack[i].kind = "batch"
        PROVE  MarkedIn(stack[i], v) /\ CallingIn(stack[i], v)
    <2>1. Key(stack[i]) # Key(Top)
      BY <1>6, OnceTopBatch DEF Key
    <2>2. \A a \in Signed : KeyOf(a) = Key(stack[i]) => v.runs[a] = world.runs[a]
      BY <1>1, <1>2, <2>1
    <2> QED BY <1>3, <1>6, <2>2 DEF WorldOnce, MarkedIn, CallingIn
  <1> QED BY <1>4, <1>5, <1>6 DEF WorldOnce

LEMMA ContractOnce == TypeOK /\ ReplayInv /\ OnceInv /\ Contract => OnceInv'
  <1> SUFFICES ASSUME TypeOK, ReplayInv, OnceInv, Contract PROVE OnceInv'
    OBVIOUS
  <1>0. world \in World /\ stack \in Seq(Frame)
    BY DEF TypeOK
  <1>1. ASSUME NEW d \in Dispatchers, NEW t \in Sponsors, NEW b \in BatchIds,
               NEW ops \in Batches, ExecuteBatch(d, t, b, ops)
        PROVE  OnceInv'
    <2> DEFINE f == BatchFrame(world, d, t, b, ops)
    <2>1. ops \in Seq(Ops)
      BY SeqDef, ConstantsAssumption DEF Batches
    <2>2. f \in Frame
      BY <1>0, <2>1, NewFrames
    <2>3. f.kind = "batch" /\ f.saved = world /\ Key(f) = <<d, t, b>> /\ f.dispatcher = d
      BY DEF BatchFrame, Key
    <2>4. /\ world'.guard = world.guard \cup {d} /\ world'.runs = world.runs
          /\ world'.seen = world.seen
      BY <1>0, <1>1 DEF ExecuteBatch, World
    <2>5. <<d, t, b>> \notin world.used /\ d \notin world.guard
      BY <1>1 DEF ExecuteBatch, BatchUnused, NotReentered
    <2>6. stack' = Append(stack, f) /\ ret' = "none"
      BY <1>1 DEF ExecuteBatch
    <2>7. Sound(world)
      <3>1. Len(stack) \in Nat /\ WorldAt(stack, world, Len(stack) + 1) = world
        BY <1>0, LenProperties DEF WorldAt
      <3> QED BY <3>1 DEF ReplayInv, ReplayInvOn
    <2>8. WorldOnce(stack, Len(stack), world)
      BY <1>0, <1>1, TopWorlds DEF OnceInv, ExecuteBatch, Running, Top
    <2>9. WorldOnce(stack, Len(stack), world')
      BY <2>4, <2>8 DEF WorldOnce, UniqueIn, MarkedIn, CallingIn
    <2>10. MarkedIn(f, world')
      BY <2>3, <2>4, <2>5, <2>7 DEF MarkedIn, Sound
    <2>11. \A i \in 1..Len(stack) : stack[i].kind = "batch" => stack[i].dispatcher # d
      BY <2>5, <2>8 DEF WorldOnce, MarkedIn
    <2> HIDE DEF f
    <2>12. OnceInvOn(Append(stack, f), world')
      BY <1>0, <2>2, <2>3, <2>8, <2>9, <2>10, <2>11, PushOnce DEF OnceInv
    <2> QED BY <2>6, <2>12 DEF OnceInv
  <1>2. CASE RefuseEntry
    BY <1>2, OnceTopBatch, OnceAdvanced DEF RefuseEntry, AtEntry
  <1>3. CASE FailEntry
    <2>1. AtEntry /\ NextEntry /\ ret' = ret /\ world' = MarkSeen
      BY <1>3 DEF FailEntry
    <2> QED BY <2>1, MarkSeenOnce, OnceAdvanced DEF AtEntry
  <1>4. CASE CallWallet
    <2> DEFINE op == Entry(Top)
               w  == EntryWallet(Top)
               opened == OpenContext(MarkSeen, w, op)
               paid == PayMintValue(opened, w, op)
    <2>1. op \in Ops /\ w \in Wallets /\ MarkSeen \in World
      BY <1>0, <1>4, TopBatch, WorldUpdates DEF CallWallet, AtEntry, MarkSeen
    <2>2. opened \in World
      BY <2>1, WorldUpdates
    <2>3. MintFrame(MarkSeen, w, op) \in Frame /\ ExternalFrame(opened) \in Frame
      BY <2>1, <2>2, NewFrames
    <2>4. SameMarks(opened, MarkSeen) /\ SameMarks(paid, MarkSeen)
      BY <2>1 DEF SameMarks, SameEvidence, OpenContext, PayMintValue, World
    <2>5. /\ MintFrame(MarkSeen, w, op).saved = MarkSeen
          /\ MintFrame(MarkSeen, w, op).kind # "batch"
          /\ ExternalFrame(opened).saved = opened
          /\ ExternalFrame(opened).kind # "batch"
      BY DEF MintFrame, ExternalFrame
    <2>6. /\ world' = paid /\ ret' = "none"
          /\ stack' = Append(Append(stack, MintFrame(MarkSeen, w, op)), ExternalFrame(opened))
      BY <1>4 DEF CallWallet
    <2>7. WorldOnce(stack, Len(stack), MarkSeen)
      <3>1. Running("batch") /\ AtEntry /\ ~DuplicateWallet(Top)
        BY <1>4 DEF CallWallet, AtEntry
      <3>2. \A i \in 1..Len(stack) : i \in 1..(Len(stack) - 1) \/ i = Len(stack)
        BY <3>1, OnceTopBatch
      <3> QED BY <3>1, <3>2, MarkSeenOnce DEF WorldOnce, Top
    <2> HIDE DEF op, w, opened, paid
    <2>8. WorldOnce(stack, Len(stack), opened) /\ WorldOnce(stack, Len(stack), paid)
      BY <2>4, <2>7, MarksDecide
    <2> QED BY <2>3, <2>5, <2>6, <2>7, <2>8, OncePushedTwice
  <1>5. CASE FinishMint
    <2>1. SameMarks(world', world)
      BY <1>0, <1>5 DEF FinishMint, ClearMintContext, SameMarks, SameEvidence, World
    <2> QED BY <1>5, <2>1, OnceReturned DEF FinishMint, Running
  <1>6. CASE RevertMint
    BY <1>6, OnceReturned DEF RevertMint, RevertTop, Running
  <1>7. CASE EmitWalletExecution
    <2>1. CallingIn(Top, world) /\ Running("batch") /\ NextEntry /\ ret' = "none"
      BY <1>7 DEF EmitWalletExecution, OnceInv
    <2>2. WorldOnce(stack, Len(stack) - 1, world') /\ MarkedIn(Top, world')
      <3>1. CASE ret = "ok"
        BY <1>0, <1>7, <2>1, <3>1, EmitOnce DEF EmitWalletExecution, World
      <3>2. CASE ret # "ok"
        BY <1>7, <2>1, <3>2, OnceTopBatch DEF EmitWalletExecution
      <3> QED BY <3>1, <3>2
    <2> QED BY <2>1, <2>2, OnceAdvanced
  <1>8. CASE FinishBatch
    <2>1. /\ world'.guard = world.guard \ {Top.dispatcher}
          /\ world'.runs = world.runs /\ world'.seen = world.seen
      BY <1>0, <1>8 DEF FinishBatch, World
    <2>2. Running("batch") /\ stack' = Below
      BY <1>8 DEF FinishBatch
    <2>3. WorldOnce(stack, Len(stack) - 1, world)
      BY <2>2, OnceTopBatch
    <2>4. WorldOnce(stack, Len(stack) - 1, world')
      <3>1. UniqueIn(world')
        BY <2>1, <2>3 DEF WorldOnce, UniqueIn
      <3>2. ASSUME NEW i \in 1..(Len(stack) - 1), stack[i].kind = "batch"
            PROVE  MarkedIn(stack[i], world') /\ CallingIn(stack[i], world')
        <4>1. MarkedIn(stack[i], world) /\ CallingIn(stack[i], world)
          BY <2>3, <3>2 DEF WorldOnce
        <4>2. stack[i].dispatcher # Top.dispatcher
          BY <2>2, <3>2, OnceTopBatch
        <4>3. stack[i].dispatcher \in world'.guard
          BY <2>1, <4>1, <4>2 DEF MarkedIn
        <4> QED BY <2>1, <4>1, <4>3 DEF MarkedIn, CallingIn
      <3> QED BY <3>1, <3>2 DEF WorldOnce
    <2> QED BY <2>2, <2>4, OncePopped DEF Running
  <1>9. CASE BatchOutOfGas
    BY <1>9, OnceReturned DEF BatchOutOfGas, Running
  <1>10. ASSUME NEW w \in Wallets, NEW isNft \in BOOLEAN, NEW isMint \in BOOLEAN,
                NEW units \in 1..MaxSupply, ForwardReceipt(w, isNft, isMint, units)
         PROVE  OnceInv'
    <2> DEFINE credited == Credit(world, w, isNft, units)
               counted == [credited EXCEPT !.ctx[w].forwarded = @ + units]
               forwarded == Forward(counted, w, isNft, units)
    <2>1. units \in Nat
      BY ConstantsAssumption
    <2>2. credited \in World /\ SameMarks(credited, world)
      <3>1. credited \in World
        BY <1>0, <2>1, TokenUpdates
      <3>2. SameMarks(credited, world)
        BY <1>0 DEF Credit, World, SameMarks, SameEvidence
      <3> QED BY <3>1, <3>2
    <2> HIDE DEF credited
    <2>3. counted \in World
      BY <2>1, <2>2, TokenUpdates
    <2>4. SameMarks(counted, world)
      BY <2>2 DEF SameMarks, SameEvidence, World
    <2> HIDE DEF counted
    <2>5. SameMarks(forwarded, world)
      BY <2>3, <2>4 DEF Forward, SameMarks, SameEvidence, World
    <2>6. CallbackFrame(world, w) \in Frame /\ ExternalFrame(counted) \in Frame
      BY <1>0, <2>3, NewFrames
    <2>7. /\ CallbackFrame(world, w).saved = world /\ CallbackFrame(world, w).kind # "batch"
          /\ ExternalFrame(counted).saved = counted /\ ExternalFrame(counted).kind # "batch"
      BY DEF CallbackFrame, ExternalFrame
    <2>8. /\ world' = forwarded /\ ret' = "none"
          /\ stack' = Append(Append(stack, CallbackFrame(world, w)), ExternalFrame(counted))
      BY <1>10 DEF ForwardReceipt, counted, credited
    <2>9. WorldOnce(stack, Len(stack), world)
      BY <1>0, <1>10, TopWorlds DEF OnceInv, ForwardReceipt, Running, Top
    <2> HIDE DEF forwarded
    <2>10. WorldOnce(stack, Len(stack), counted) /\ WorldOnce(stack, Len(stack), forwarded)
      BY <2>4, <2>5, <2>9, MarksDecide
    <2> QED BY <2>6, <2>7, <2>8, <2>9, <2>10, OncePushedTwice
  <1>11. CASE FinishCallback
    BY <1>11, OnceReturned DEF FinishCallback, Running, SameMarks, SameEvidence
  <1>12. CASE RevertCallback
    BY <1>12, OnceReturned DEF RevertCallback, Running
  <1> QED BY <1>1, <1>2, <1>3, <1>4, <1>5, <1>6, <1>7, <1>8, <1>9, <1>10, <1>11, <1>12
          DEF Contract

LEMMA EnvironmentOnce == TypeOK /\ OnceInv /\ Environment => OnceInv'
  <1> SUFFICES ASSUME TypeOK, OnceInv, Environment PROVE OnceInv'
    OBVIOUS
  <1>0. world \in World
    BY DEF TypeOK
  <1>1. ASSUME NEW w \in Wallets, NEW units \in 1..MaxSupply, KeepReceipt(w, units)
        PROVE  OnceInv'
    BY <1>0, <1>1, OnceKept DEF KeepReceipt, SameMarks, SameEvidence, World
  <1>2. ASSUME NEW w \in Wallets, NEW amount \in 1..MaxDonation, SendEther(w, amount)
        PROVE  OnceInv'
    BY <1>0, <1>2, OnceKept DEF SendEther, SameMarks, SameEvidence, World
  <1>3. CASE ExternalReturn
    <2>1. stack # <<>> /\ stack' = Below
      BY <1>3 DEF ExternalReturn, Running
    <2>2. CASE Below = <<>>
      <3>1. Len(stack) = 1
        BY <2>1, <2>2, TopFrame, EmptySeq
      <3>2. UniqueIn(world)
        BY <2>1, TopWorlds DEF TypeOK, OnceInv
      <3>3. world'.runs = world.runs
        BY <1>0, <1>3, <2>2 DEF ExternalReturn, ClearTransient, World
      <3>4. WorldOnce(stack, Len(stack) - 1, world')
        <4>1. UniqueIn(world')
          BY <3>2, <3>3 DEF UniqueIn
        <4>2. \A i \in 1..(Len(stack) - 1) : FALSE
          BY <3>1
        <4> QED BY <4>1, <4>2 DEF WorldOnce
      <3> QED BY <2>1, <3>4, OncePopped
    <2>3. CASE Below # <<>>
      BY <1>3, <2>1, <2>3, OnceReturned DEF ExternalReturn, SameMarks, SameEvidence
    <2> QED BY <2>2, <2>3
  <1>4. CASE ExternalRevert
    BY <1>4, OnceReturned DEF ExternalRevert, Running
  <1>5. CASE BeginTransaction
    <2> DEFINE f == ExternalFrame(world)
    <2>1. f \in Frame /\ f.kind = "external" /\ f.saved = world
      BY <1>0, NewFrames DEF ExternalFrame
    <2>2. stack' = Append(stack, f) /\ world' = world /\ stack = <<>>
      BY <1>5 DEF BeginTransaction
    <2> HIDE DEF f
    <2>3. WorldOnce(stack, Len(stack), world)
      BY <2>2, TopWorlds DEF OnceInv, TypeOK
    <2>4. OnceInvOn(Append(stack, f), world')
      BY <2>1, <2>2, <2>3, PushOnce DEF OnceInv, TypeOK
    <2>5. ~Running("batch")'
      <3>1. stack' # <<>> /\ Top' = f
        BY <2>1, <2>2, PushFrame, EmptySeq DEF TypeOK, Top
      <3> QED BY <2>1, <3>1 DEF Running
    <2> QED BY <2>2, <2>4, <2>5 DEF OnceInv
  <1>6. ASSUME NEW w \in Wallets, NEW d \in Dispatchers \cup {NoDelegate}, Delegate(w, d)
        PROVE  OnceInv'
    BY <1>6, OnceKept DEF Delegate, SameMarks, SameEvidence
  <1>7. CASE Tick
    BY <1>7, OnceKept DEF Tick, SameMarks, SameEvidence
  <1> QED BY <1>1, <1>2, <1>3, <1>4, <1>5, <1>6, <1>7 DEF Environment

LEMMA OnceInvIsEnough == TypeOK /\ OnceInv => OneSuccessPerWallet
  <1> SUFFICES ASSUME TypeOK, OnceInv PROVE OneSuccessPerWallet
    OBVIOUS
  <1>1. UniqueIn(world)
    BY TopWorlds DEF TypeOK, OnceInv
  <1> QED BY <1>1 DEF UniqueIn, OneSuccessPerWallet, Counted

LEMMA OnceInvariant == Spec => []OnceInv
  <1>1. TypeOK /\ ReplayInv /\ OnceInv /\ [Next]_vars => OnceInv'
    <2>1. ASSUME TypeOK, OnceInv, UNCHANGED vars PROVE OnceInv'
      BY <2>1, OnceKept DEF vars, SameMarks, SameEvidence
    <2> QED BY <2>1, ContractOnce, EnvironmentOnce DEF Next
  <1> QED BY <1>1, InitOnce, TypeCorrect, ReplayInvariant, PTL DEF Spec

(***************************************************************************)
(* Within one batch a wallet succeeds at most once, although it may have   *)
(* signed several of its entries and a mint target may call executeBatch   *)
(* of the same or of another executor before it returns.                   *)
(***************************************************************************)
THEOREM OncePerWallet == Spec => []OneSuccessPerWallet
  BY OnceInvariant, TypeCorrect, OnceInvIsEnough, PTL
-----------------------------------------------------------------------------
(***************************************************************************)
(* Why the context counts what was delivered.  A wallet with an open mint  *)
(* has an active context, so no second mint of it opens inside the first.  *)
(* Its count and its deliveries differ only in the world that a receiver's *)
(* forward is entered with, which is undone if the forward fails.  Both    *)
(* must hold of the current world and of every snapshot, for the first n   *)
(* frames, which are those open in it.                                     *)
(***************************************************************************)
DeliveredIn(f, wld) ==
  wld.delivered[f.wallet] - f.saved.delivered[f.wallet] = wld.ctx[f.wallet].forwarded

WorldOpen(s, n, wld) ==
  \A i \in 1..n : s[i].kind = "mint" => wld.ctx[s[i].wallet].active

WorldFit(s, n, wld) ==
  \A i \in 1..n : s[i].kind = "mint" => wld.ctx[s[i].wallet].active /\ DeliveredIn(s[i], wld)

Forwarding(s, r, j) == j > 1 /\ s[j - 1].kind = "callback" /\ (j = Len(s) + 1 => r # "ok")

DistinctMints(s) ==
  \A i, k \in 1..Len(s) :
    i < k /\ s[i].kind = "mint" /\ s[k].kind = "mint" => s[i].wallet # s[k].wallet

DeliveryInvOn(s, wld, r) ==
  /\ \A j \in 1..(Len(s) + 1) :
       /\ WorldOpen(s, j - 1, WorldAt(s, wld, j))
       /\ Forwarding(s, r, j) \/ WorldFit(s, j - 1, WorldAt(s, wld, j))
  /\ DistinctMints(s)

DeliveryInv == DeliveryInvOn(stack, world, ret)

(* All that the invariant reads of a world.                                *)
SameCounts(v, wld) == v.ctx = wld.ctx /\ v.delivered = wld.delivered

LEMMA CountsDecide ==
  ASSUME NEW v, NEW wld, SameCounts(v, wld)
  PROVE  /\ \A s, n : WorldOpen(s, n, wld) => WorldOpen(s, n, v)
         /\ \A s, n : WorldFit(s, n, wld) => WorldFit(s, n, v)
  BY DEF SameCounts, WorldOpen, WorldFit, DeliveredIn

LEMMA FitIsOpen == \A s, n, wld : WorldFit(s, n, wld) => WorldOpen(s, n, wld)
  BY DEF WorldFit, WorldOpen

(* Two stacks that agree on the frames open in a world.                    *)
LEMMA SamePrefix ==
  ASSUME NEW s, NEW r, NEW n \in Nat, \A i \in 1..n : r[i] = s[i], NEW wld
  PROVE  /\ WorldOpen(s, n, wld) <=> WorldOpen(r, n, wld)
         /\ WorldFit(s, n, wld) <=> WorldFit(r, n, wld)
  BY DEF WorldOpen, WorldFit

LEMMA TopDelivery ==
  ASSUME NEW s \in Seq(Frame), NEW wld, NEW r, DeliveryInvOn(s, wld, r)
  PROVE  /\ Len(s) \in Nat
         /\ WorldOpen(s, Len(s), wld)
         /\ s = <<>> \/ s[Len(s)].kind # "callback" \/ r = "ok" => WorldFit(s, Len(s), wld)
  <1>1. Len(s) \in Nat /\ (s # <<>> => Len(s) > 0) /\ (s = <<>> => Len(s) = 0)
    BY EmptySeq, LenProperties
  <1> DEFINE n == Len(s)
  <1>2. WorldAt(s, wld, n + 1) = wld /\ n + 1 \in 1..(n + 1) /\ n + 1 - 1 = n
    BY <1>1 DEF WorldAt
  <1>3. WorldOpen(s, n, wld) /\ (Forwarding(s, r, n + 1) \/ WorldFit(s, n, wld))
    BY <1>1, <1>2 DEF DeliveryInvOn
  <1>4. s = <<>> \/ s[n].kind # "callback" \/ r = "ok" => ~Forwarding(s, r, n + 1)
    BY <1>1 DEF Forwarding
  <1> QED BY <1>1, <1>3, <1>4

LEMMA KeepDelivery ==
  ASSUME NEW s \in Seq(Frame), NEW wld, NEW v, NEW r, DeliveryInvOn(s, wld, r),
         SameCounts(v, wld)
  PROVE  DeliveryInvOn(s, v, r)
  <1>1. Len(s) \in Nat
    BY LenProperties
  <1>2. ASSUME NEW j \in 1..(Len(s) + 1)
        PROVE  /\ WorldOpen(s, j - 1, WorldAt(s, v, j))
               /\ Forwarding(s, r, j) \/ WorldFit(s, j - 1, WorldAt(s, v, j))
    <2>1. /\ WorldOpen(s, j - 1, WorldAt(s, wld, j))
          /\ Forwarding(s, r, j) \/ WorldFit(s, j - 1, WorldAt(s, wld, j))
      BY DEF DeliveryInvOn
    <2>2. SameCounts(WorldAt(s, v, j), WorldAt(s, wld, j))
      BY DEF WorldAt, SameCounts
    <2> QED BY <2>1, <2>2, CountsDecide
  <1> QED BY <1>2 DEF DeliveryInvOn

LEMMA AdvanceDelivery ==
  ASSUME NEW s \in Seq(Frame), NEW wld, NEW v, NEW r, NEW q, s # <<>>,
         DeliveryInvOn(s, wld, r), s[Len(s)].kind = "batch", SameCounts(v, wld)
  PROVE  DeliveryInvOn([s EXCEPT ![Len(s)].next = @ + 1], v, q)
  <1> DEFINE n == Len(s)
             t == [s EXCEPT ![n].next = @ + 1]
  <1>1. /\ n \in Nat \ {0} /\ Len(t) = n
        /\ \A i \in 1..(n - 1) : t[i] = s[i]
        /\ t[n].kind = "batch" /\ t[n].saved = s[n].saved
    BY AdvanceFrame
  <1>2. s[n].kind = "batch"
    OBVIOUS
  <1>3. WorldFit(s, n, wld)
    BY <1>2, TopDelivery
  <1>4. DistinctMints(s)
    BY DEF DeliveryInvOn
  <1> HIDE DEF t
  <1>5. ASSUME NEW j \in 1..(n + 1)
        PROVE  /\ WorldOpen(t, j - 1, WorldAt(t, v, j))
               /\ Forwarding(t, q, j) \/ WorldFit(t, j - 1, WorldAt(t, v, j))
    <2>1. CASE j = n + 1
      <3>1. \A i \in 1..n : t[i] = s[i] \/ (s[i].kind = "batch" /\ t[i].kind = "batch")
        <4>1. \A i \in 1..n : i \in 1..(n - 1) \/ i = n
          BY <1>1
        <4> QED BY <1>1, <1>2, <4>1
      <3>2. WorldFit(s, n, v)
        BY <1>3, CountsDecide
      <3>3. WorldFit(t, n, v)
        BY <3>1, <3>2 DEF WorldFit
      <3>4. WorldAt(t, v, j) = v /\ j - 1 = n
        BY <1>1, <2>1 DEF WorldAt
      <3> QED BY <3>3, <3>4, FitIsOpen
    <2>2. CASE j \in 1..n
      <3>1. /\ j \in 1..(n + 1) /\ j - 1 \in Nat /\ j # n + 1
            /\ \A i \in 1..(j - 1) : t[i] = s[i]
        BY <1>1, <2>2
      <3>2. WorldAt(t, v, j) = WorldAt(s, wld, j)
        <4>1. j \in 1..(n - 1) \/ j = n
          BY <1>1, <2>2
        <4> QED BY <1>1, <4>1, <2>2 DEF WorldAt
      <3>3. /\ WorldOpen(s, j - 1, WorldAt(s, wld, j))
            /\ Forwarding(s, r, j) \/ WorldFit(s, j - 1, WorldAt(s, wld, j))
        BY <3>1 DEF DeliveryInvOn
      <3>4. Forwarding(s, r, j) => Forwarding(t, q, j)
        BY <1>1, <3>1, <2>2 DEF Forwarding
      <3> QED BY <3>1, <3>2, <3>3, <3>4, SamePrefix
    <2> QED BY <1>1, <2>1, <2>2
  <1>6. DistinctMints(t)
    <2>1. \A i \in 1..n : t[i].kind = "mint" => t[i] = s[i]
      <3>1. \A i \in 1..n : i \in 1..(n - 1) \/ i = n
        BY <1>1
      <3> QED BY <1>1, <3>1
    <2> QED BY <1>1, <1>4, <2>1 DEF DistinctMints
  <1>7. DeliveryInvOn(t, v, q)
    BY <1>1, <1>5, <1>6 DEF DeliveryInvOn
  <1> QED BY <1>7 DEF t

LEMMA PopDelivery ==
  ASSUME NEW s \in Seq(Frame), NEW wld, NEW v, NEW r, NEW q, s # <<>>,
         DeliveryInvOn(s, wld, r), WorldOpen(s, Len(s) - 1, v),
         \/ Len(s) > 1 /\ s[Len(s) - 1].kind = "callback" /\ q # "ok"
         \/ WorldFit(s, Len(s) - 1, v)
  PROVE  DeliveryInvOn(SubSeq(s, 1, Len(s) - 1), v, q)
  <1> DEFINE n == Len(s)
             t == SubSeq(s, 1, n - 1)
  <1>1. /\ n \in Nat \ {0} /\ Len(t) = n - 1
        /\ \A i \in 1..(n - 1) : t[i] = s[i]
    BY PopFrame
  <1>2. /\ WorldOpen(s, n - 1, v)
        /\ (n > 1 /\ s[n - 1].kind = "callback" /\ q # "ok") \/ WorldFit(s, n - 1, v)
    OBVIOUS
  <1> HIDE DEF t
  <1>3. ASSUME NEW j \in 1..n
        PROVE  /\ WorldOpen(t, j - 1, WorldAt(t, v, j))
               /\ Forwarding(t, q, j) \/ WorldFit(t, j - 1, WorldAt(t, v, j))
    <2>0. j - 1 \in Nat /\ \A i \in 1..(j - 1) : t[i] = s[i]
      BY <1>1
    <2>1. CASE j = n
      <3>1. WorldAt(t, v, j) = v
        BY <1>1, <2>1 DEF WorldAt
      <3>2. n > 1 /\ s[n - 1].kind = "callback" /\ q # "ok" => Forwarding(t, q, j)
        BY <1>1, <2>1 DEF Forwarding
      <3>3. WorldOpen(t, j - 1, v) /\ (WorldFit(s, n - 1, v) => WorldFit(t, j - 1, v))
        BY <1>2, <2>0, <2>1, SamePrefix
      <3> QED BY <1>2, <3>1, <3>2, <3>3
    <2>2. CASE j \in 1..(n - 1)
      <3>1. j \in 1..(n + 1) /\ j # n + 1 /\ j # n
        BY <1>1, <2>2
      <3>2. WorldAt(t, v, j) = WorldAt(s, wld, j)
        BY <1>1, <2>2 DEF WorldAt
      <3>3. /\ WorldOpen(s, j - 1, WorldAt(s, wld, j))
            /\ Forwarding(s, r, j) \/ WorldFit(s, j - 1, WorldAt(s, wld, j))
        BY <3>1 DEF DeliveryInvOn
      <3>4. Forwarding(s, r, j) => Forwarding(t, q, j)
        BY <1>1, <3>1, <2>2 DEF Forwarding
      <3> QED BY <2>0, <3>2, <3>3, <3>4, SamePrefix
    <2> QED BY <1>1, <2>1, <2>2
  <1>4. DistinctMints(t)
    <2>1. \A i \in 1..(n - 1) : i \in 1..n /\ t[i] = s[i]
      BY <1>1
    <2> QED BY <1>1, <2>1 DEF DistinctMints, DeliveryInvOn
  <1>5. Len(t) + 1 = n
    BY <1>1
  <1>6. DeliveryInvOn(t, v, q)
    BY <1>3, <1>4, <1>5 DEF DeliveryInvOn
  <1> QED BY <1>6 DEF t

LEMMA PushDelivery ==
  ASSUME NEW s \in Seq(Frame), NEW wld, NEW v, NEW r, NEW q, NEW f \in Frame,
         DeliveryInvOn(s, wld, r),
         WorldOpen(s, Len(s), f.saved),
         (s # <<>> /\ s[Len(s)].kind = "callback") \/ WorldFit(s, Len(s), f.saved),
         WorldOpen(Append(s, f), Len(s) + 1, v),
         (f.kind = "callback" /\ q # "ok") \/ WorldFit(Append(s, f), Len(s) + 1, v),
         \A i \in 1..Len(s) : s[i].kind = "mint" /\ f.kind = "mint" => s[i].wallet # f.wallet
  PROVE  DeliveryInvOn(Append(s, f), v, q)
  <1> DEFINE n == Len(s)
             t == Append(s, f)
  <1>1. /\ n \in Nat /\ Len(t) = n + 1
        /\ (\A i \in 1..n : t[i] = s[i]) /\ t[n + 1] = f
        /\ s # <<>> => n > 0
    BY PushFrame, LenProperties, EmptySeq
  <1>2. /\ WorldOpen(s, n, f.saved)
        /\ (s # <<>> /\ s[n].kind = "callback") \/ WorldFit(s, n, f.saved)
        /\ WorldOpen(t, n + 1, v)
        /\ (f.kind = "callback" /\ q # "ok") \/ WorldFit(t, n + 1, v)
    OBVIOUS
  <1>3. \A i \in 1..n : s[i].kind = "mint" /\ f.kind = "mint" => s[i].wallet # f.wallet
    OBVIOUS
  <1> HIDE DEF t
  <1>4. ASSUME NEW j \in 1..(n + 2)
        PROVE  /\ WorldOpen(t, j - 1, WorldAt(t, v, j))
               /\ Forwarding(t, q, j) \/ WorldFit(t, j - 1, WorldAt(t, v, j))
    <2>1. CASE j = n + 2
      <3>1. WorldAt(t, v, j) = v /\ j - 1 = n + 1
        BY <1>1, <2>1 DEF WorldAt
      <3>2. f.kind = "callback" /\ q # "ok" => Forwarding(t, q, j)
        BY <1>1, <2>1 DEF Forwarding
      <3> QED BY <1>2, <3>1, <3>2
    <2>2. CASE j = n + 1
      <3>1. WorldAt(t, v, j) = f.saved /\ j - 1 = n
        BY <1>1, <2>2 DEF WorldAt
      <3>2. s # <<>> /\ s[n].kind = "callback" => Forwarding(t, q, j)
        BY <1>1, <2>2 DEF Forwarding
      <3>3. /\ WorldOpen(t, n, f.saved)
            /\ WorldFit(s, n, f.saved) => WorldFit(t, n, f.saved)
        BY <1>1, <1>2, SamePrefix
      <3> QED BY <1>2, <3>1, <3>2, <3>3
    <2>3. CASE j \in 1..n
      <3>1. /\ j \in 1..(n + 1) /\ j - 1 \in Nat /\ j # n + 1
            /\ \A i \in 1..(j - 1) : t[i] = s[i]
        BY <1>1, <2>3
      <3>2. WorldAt(t, v, j) = WorldAt(s, wld, j)
        BY <1>1, <2>3 DEF WorldAt
      <3>3. /\ WorldOpen(s, j - 1, WorldAt(s, wld, j))
            /\ Forwarding(s, r, j) \/ WorldFit(s, j - 1, WorldAt(s, wld, j))
        BY <3>1 DEF DeliveryInvOn
      <3>4. Forwarding(s, r, j) => Forwarding(t, q, j)
        BY <1>1, <3>1, <2>3 DEF Forwarding
      <3> QED BY <3>1, <3>2, <3>3, <3>4, SamePrefix
    <2> QED BY <1>1, <2>1, <2>2, <2>3
  <1>5. DistinctMints(t)
    <2> SUFFICES ASSUME NEW i \in 1..(n + 1), NEW k \in 1..(n + 1), i < k,
                        t[i].kind = "mint", t[k].kind = "mint"
                 PROVE  t[i].wallet # t[k].wallet
      BY <1>1 DEF DistinctMints
    <2>1. i \in 1..n /\ (k \in 1..n \/ k = n + 1)
      BY <1>1
    <2> QED BY <1>1, <1>3, <2>1 DEF DistinctMints, DeliveryInvOn
  <1>6. Len(t) + 1 = n + 2
    BY <1>1
  <1>7. DeliveryInvOn(t, v, q)
    BY <1>4, <1>5, <1>6 DEF DeliveryInvOn
  <1> QED BY <1>7 DEF t
-----------------------------------------------------------------------------
LEMMA InitDelivery == Init => DeliveryInv
  BY EmptySeq DEF Init, DeliveryInv, DeliveryInvOn, WorldOpen, WorldFit, DistinctMints

LEMMA DeliveryKept ==
  ASSUME TypeOK, DeliveryInv, UNCHANGED <<stack, ret>>, SameCounts(world', world)
  PROVE  DeliveryInv'
  <1>1. DeliveryInvOn(stack, world', ret)
    BY KeepDelivery DEF TypeOK, DeliveryInv
  <1> QED BY <1>1 DEF DeliveryInv

LEMMA DeliveryAdvanced ==
  ASSUME TypeOK, DeliveryInv, Running("batch"), NextEntry, SameCounts(world', world)
  PROVE  DeliveryInv'
  <1>1. DeliveryInvOn([stack EXCEPT ![Len(stack)].next = @ + 1], world', ret')
    BY AdvanceDelivery DEF TypeOK, DeliveryInv, Running, Top
  <1> QED BY <1>1 DEF DeliveryInv, NextEntry

(* A frame that is not a receiver whose forward failed returns.            *)
LEMMA DeliveryReturned ==
  ASSUME TypeOK, DeliveryInv, stack # <<>>, Top.kind # "callback" \/ ret = "ok",
         stack' = Below,
         WorldFit(stack, Len(stack), world) => WorldFit(stack, Len(stack) - 1, world')
  PROVE  DeliveryInv'
  <1>1. WorldFit(stack, Len(stack) - 1, world')
    BY TopDelivery DEF TypeOK, DeliveryInv, Top
  <1>2. DeliveryInvOn(Below, world', ret')
    BY <1>1, FitIsOpen, PopDelivery DEF TypeOK, DeliveryInv, Below
  <1> QED BY <1>2 DEF DeliveryInv

(* A frame that reverts gives the world it was entered with back.          *)
LEMMA DeliveryRestored ==
  ASSUME TypeOK, DeliveryInv, stack # <<>>, stack' = Below, world' = Top.saved, ret' # "ok"
  PROVE  DeliveryInv'
  <1> DEFINE n == Len(stack)
  <1>1. n \in Nat \ {0} /\ WorldAt(stack, world, n) = world' /\ n \in 1..(n + 1)
    BY TopFrame DEF WorldAt, Top
  <1>2. /\ WorldOpen(stack, n - 1, world')
        /\ Forwarding(stack, ret, n) \/ WorldFit(stack, n - 1, world')
    BY <1>1 DEF DeliveryInv, DeliveryInvOn
  <1>3. Forwarding(stack, ret, n) => n > 1 /\ stack[n - 1].kind = "callback"
    BY DEF Forwarding
  <1>4. DeliveryInvOn(Below, world', ret')
    BY <1>2, <1>3, PopDelivery DEF TypeOK, DeliveryInv, Below
  <1> QED BY <1>4 DEF DeliveryInv

(* A frame that opens no mint is entered with the counts as they are.      *)
LEMMA PlainPush ==
  ASSUME NEW s \in Seq(Frame), NEW f \in Frame, f.kind # "mint", NEW v
  PROVE  /\ WorldOpen(Append(s, f), Len(s) + 1, v) <=> WorldOpen(s, Len(s), v)
         /\ WorldFit(Append(s, f), Len(s) + 1, v) <=> WorldFit(s, Len(s), v)
  <1> DEFINE n == Len(s)
             t == Append(s, f)
  <1>1. n \in Nat /\ (\A i \in 1..n : t[i] = s[i]) /\ t[n + 1].kind # "mint"
    BY PushFrame, LenProperties
  <1> HIDE DEF t
  <1>2. \A i \in 1..(n + 1) : i \in 1..n \/ i = n + 1
    BY <1>1
  <1>3. \A i \in 1..n : i \in 1..(n + 1)
    BY <1>1
  <1>4. WorldOpen(t, n + 1, v) <=> WorldOpen(s, n, v)
    BY <1>1, <1>2, <1>3 DEF WorldOpen
  <1>5. WorldFit(t, n + 1, v) <=> WorldFit(s, n, v)
    BY <1>1, <1>2, <1>3 DEF WorldFit
  <1> QED BY <1>4, <1>5 DEF t

LEMMA DeliveryPushed ==
  ASSUME TypeOK, DeliveryInv, stack = <<>> \/ Top.kind # "callback",
         NEW f \in Frame, f.kind \notin {"mint", "callback"}, SameCounts(f.saved, world),
         stack' = Append(stack, f), SameCounts(world', world)
  PROVE  DeliveryInv'
  <1>1. WorldFit(stack, Len(stack), world)
    BY TopDelivery DEF TypeOK, DeliveryInv, Top
  <1>2. WorldFit(stack, Len(stack), f.saved) /\ WorldFit(stack, Len(stack), world')
    BY <1>1, CountsDecide
  <1>3. WorldFit(Append(stack, f), Len(stack) + 1, world')
    BY <1>2, PlainPush DEF TypeOK
  <1>4. DeliveryInvOn(Append(stack, f), world', ret')
    BY <1>2, <1>3, FitIsOpen, PushDelivery DEF TypeOK, DeliveryInv
  <1> QED BY <1>4 DEF DeliveryInv

(* The wallets of the mints that are open.                                 *)
LEMMA MintWallets ==
  ASSUME TypeOK, DeliveryInv
  PROVE  /\ Len(stack) \in Nat
         /\ \A i \in 1..Len(stack) : stack[i].kind = "mint" =>
              stack[i].wallet \in Wallets /\ world.ctx[stack[i].wallet].active
  <1>1. Len(stack) \in Nat /\ WorldOpen(stack, Len(stack), world)
    BY TopDelivery DEF TypeOK, DeliveryInv
  <1>2. \A i \in 1..Len(stack) : stack[i] \in Frame
    BY ElementOfSeq DEF TypeOK
  <1> QED BY <1>1, <1>2, FrameKinds DEF WorldOpen

(* The wallet call: the mint that opens is the wallet's only one.          *)
LEMMA CallDelivery == TypeOK /\ DeliveryInv /\ CallWallet => DeliveryInv'
  <1> SUFFICES ASSUME TypeOK, DeliveryInv, CallWallet PROVE DeliveryInv'
    OBVIOUS
  <1> DEFINE op == Entry(Top)
             w  == EntryWallet(Top)
             marked == MarkSeen
             opened == OpenContext(marked, w, op)
             paid   == PayMintValue(opened, w, op)
             m == MintFrame(marked, w, op)
             x == ExternalFrame(opened)
             n == Len(stack)
  <1>0. world \in World /\ stack \in Seq(Frame)
    BY DEF TypeOK
  <1>1. op \in Ops /\ w \in Wallets /\ marked \in World
    BY <1>0, TopBatch, WorldUpdates DEF CallWallet, AtEntry, MarkSeen
  <1>2. opened \in World
    BY <1>1, WorldUpdates
  <1>3. m \in Frame /\ x \in Frame
    BY <1>1, <1>2, NewFrames
  <1>4. SameCounts(marked, world)
    BY <1>0 DEF MarkSeen, World, SameCounts
  <1>5. /\ opened.delivered = marked.delivered
        /\ opened.ctx[w].active /\ opened.ctx[w].forwarded = 0
        /\ \A u \in Wallets : u # w => opened.ctx[u] = marked.ctx[u]
        /\ marked.delivered[w] \in Nat
    BY <1>1 DEF OpenContext, World
  <1>6. SameCounts(paid, opened)
    BY <1>2 DEF PayMintValue, World, SameCounts
  <1>7. /\ m.kind = "mint" /\ m.saved = marked /\ m.wallet = w
        /\ x.kind = "external" /\ x.saved = opened
    BY DEF MintFrame, ExternalFrame
  <1>8. world' = paid /\ stack' = Append(Append(stack, m), x) /\ ret' = "none"
    BY DEF CallWallet
  <1>9. ~world.ctx[w].active /\ Top.kind = "batch" /\ stack # <<>>
    BY DEF CallWallet, MintAllowed, AtEntry, Running
  <1>10. WorldFit(stack, n, world)
    BY <1>0, <1>9, TopDelivery DEF DeliveryInv, Top
  <1>11. \A i \in 1..n : stack[i].kind = "mint" => stack[i].wallet \in Wallets \ {w}
    BY <1>9, MintWallets
  <1> HIDE DEF op, w, marked, opened, paid, m, x
  <1>12. WorldFit(stack, n, marked)
    BY <1>4, <1>10, CountsDecide
  <1>13. WorldFit(Append(stack, m), n + 1, opened)
    <2> DEFINE t == Append(stack, m)
    <2>1. n \in Nat /\ (\A i \in 1..n : t[i] = stack[i]) /\ t[n + 1] = m
      BY <1>0, <1>3, PushFrame, LenProperties
    <2> HIDE DEF t
    <2>2. ASSUME NEW i \in 1..n, stack[i].kind = "mint"
          PROVE  opened.ctx[stack[i].wallet].active /\ DeliveredIn(stack[i], opened)
      BY <1>5, <1>11, <1>12, <2>2 DEF WorldFit, DeliveredIn
    <2>3. opened.ctx[m.wallet].active /\ DeliveredIn(m, opened)
      BY <1>5, <1>7 DEF DeliveredIn
    <2>4. \A i \in 1..(n + 1) : i \in 1..n \/ i = n + 1
      BY <2>1
    <2> QED BY <2>1, <2>2, <2>3, <2>4 DEF WorldFit, t
  <1>14. DeliveryInvOn(Append(stack, m), opened, "none")
    BY <1>0, <1>3, <1>7, <1>11, <1>12, <1>13, FitIsOpen, PushDelivery DEF DeliveryInv
  <1> DEFINE t == Append(stack, m)
  <1>15. t \in Seq(Frame) /\ Len(t) = n + 1
    BY <1>0, <1>3, PushFrame
  <1> HIDE DEF t, n
  <1>16. WorldFit(t, Len(t), opened) /\ WorldFit(t, Len(t), paid)
    BY <1>6, <1>13, <1>15, CountsDecide DEF t
  <1>17. WorldFit(Append(t, x), Len(t) + 1, paid)
    BY <1>3, <1>7, <1>15, <1>16, PlainPush
  <1>18. DeliveryInvOn(Append(t, x), paid, "none")
    BY <1>3, <1>7, <1>14, <1>15, <1>16, <1>17, FitIsOpen, PushDelivery DEF t
  <1> QED BY <1>8, <1>18 DEF DeliveryInv, t

(* A receiver counts the units before they are the recipient's.            *)
LEMMA ForwardDelivery ==
  ASSUME TypeOK, DeliveryInv, NEW w \in Wallets, NEW isNft \in BOOLEAN,
         NEW isMint \in BOOLEAN, NEW units \in 1..MaxSupply,
         ForwardReceipt(w, isNft, isMint, units)
  PROVE  DeliveryInv'
  <1> DEFINE credited == Credit(world, w, isNft, units)
             counted == [credited EXCEPT !.ctx[w].forwarded = @ + units]
             forwarded == Forward(counted, w, isNft, units)
             c == CallbackFrame(world, w)
             x == ExternalFrame(counted)
             n == Len(stack)
  <1>0. world \in World /\ stack \in Seq(Frame)
    BY DEF TypeOK
  <1>1. units \in Nat /\ isNft
    BY ConstantsAssumption DEF ForwardReceipt, CallbackAccepted
  <1>2. credited \in World /\ SameCounts(credited, world)
    <2>1. credited \in World
      BY <1>0, <1>1, TokenUpdates
    <2>2. SameCounts(credited, world)
      BY <1>0 DEF Credit, World, SameCounts
    <2> QED BY <2>1, <2>2
  <1>3. /\ world' = forwarded /\ ret' = "none"
        /\ stack' = Append(Append(stack, c), x)
    BY DEF ForwardReceipt
  <1> HIDE DEF credited
  <1>4. counted \in World
    BY <1>1, <1>2, TokenUpdates
  <1>5. /\ counted.delivered = credited.delivered
        /\ \A u \in Wallets : counted.ctx[u].active = credited.ctx[u].active
        /\ counted.ctx[w].forwarded = credited.ctx[w].forwarded + units
        /\ \A u \in Wallets : u # w => counted.ctx[u] = credited.ctx[u]
    BY <1>1, <1>2 DEF World
  <1> HIDE DEF counted
  <1>6. /\ forwarded.ctx = counted.ctx
        /\ forwarded.delivered[w] = counted.delivered[w] + units
        /\ \A u \in Wallets : u # w => forwarded.delivered[u] = counted.delivered[u]
    BY <1>1, <1>4 DEF Forward, World
  <1> HIDE DEF forwarded
  <1>7. c \in Frame /\ x \in Frame
    BY <1>0, <1>4, NewFrames
  <1>8. /\ c.kind = "callback" /\ c.saved = world
        /\ x.kind = "external" /\ x.saved = counted
    BY DEF CallbackFrame, ExternalFrame
  <1> HIDE DEF c, x
  <1>9. WorldFit(stack, n, world)
    BY <1>0, TopDelivery DEF DeliveryInv, ForwardReceipt, Running, Top
  <1>10. WorldOpen(stack, n, counted)
    BY <1>2, <1>5, MintWallets DEF WorldOpen, SameCounts
  <1>11. WorldFit(stack, n, forwarded)
    <2> SUFFICES ASSUME NEW i \in 1..n, stack[i].kind = "mint"
                 PROVE  /\ forwarded.ctx[stack[i].wallet].active
                        /\ DeliveredIn(stack[i], forwarded)
      BY DEF WorldFit
    <2> DEFINE u == stack[i].wallet
    <2>1. u \in Wallets /\ world.ctx[u].active /\ DeliveredIn(stack[i], world)
      BY <1>9, MintWallets DEF WorldFit
    <2>2. stack[i].saved \in World
      BY <1>0, ElementOfSeq, FrameKinds
    <2>3. /\ world.delivered[u] \in Nat /\ stack[i].saved.delivered[u] \in Nat
          /\ world.ctx[u].forwarded \in Nat
      BY <1>0, <2>1, <2>2 DEF World
    <2>4. forwarded.ctx[u].active
      BY <1>2, <1>5, <1>6, <2>1 DEF SameCounts
    <2>5. CASE u = w
      <3>1. /\ forwarded.delivered[u] = world.delivered[u] + units
            /\ forwarded.ctx[u].forwarded = world.ctx[u].forwarded + units
        BY <1>2, <1>5, <1>6, <2>5 DEF SameCounts
      <3>2. world.delivered[u] - stack[i].saved.delivered[u] = world.ctx[u].forwarded
        BY <2>1 DEF DeliveredIn
      <3> DEFINE p == world.delivered[u]
                 q == stack[i].saved.delivered[u]
                 r == world.ctx[u].forwarded
      <3>3. p \in Nat /\ q \in Nat /\ r \in Nat /\ p - q = r
        BY <2>3, <3>2
      <3> HIDE DEF p, q, r
      <3>4. (p + units) - q = r + units
        BY <1>1, <3>3
      <3>5. forwarded.delivered[u] - q = forwarded.ctx[u].forwarded
        BY <3>1, <3>4 DEF p, r
      <3> QED BY <2>4, <3>5 DEF DeliveredIn, q
    <2>6. CASE u # w
      <3>1. /\ forwarded.delivered[u] = world.delivered[u]
            /\ forwarded.ctx[u].forwarded = world.ctx[u].forwarded
        BY <1>2, <1>5, <1>6, <2>1, <2>6 DEF SameCounts
      <3> QED BY <2>1, <2>4, <3>1 DEF DeliveredIn
    <2> QED BY <2>5, <2>6
  <1>12. WorldOpen(Append(stack, c), n + 1, counted)
    BY <1>0, <1>7, <1>8, <1>10, PlainPush
  <1>13. DeliveryInvOn(Append(stack, c), counted, "none")
    BY <1>0, <1>7, <1>8, <1>9, <1>12, FitIsOpen, PushDelivery DEF DeliveryInv
  <1> DEFINE t == Append(stack, c)
  <1>14. /\ t \in Seq(Frame) /\ Len(t) = n + 1 /\ t # <<>>
         /\ t[Len(t)] = c
    BY <1>0, <1>7, PushFrame
  <1>15. WorldFit(t, Len(t), forwarded)
    BY <1>0, <1>7, <1>8, <1>11, <1>14, PlainPush
  <1>16. WorldOpen(t, Len(t), counted)
    BY <1>12, <1>14
  <1>17. DeliveryInvOn(t, counted, "none")
    BY <1>13
  <1> HIDE DEF t, n
  <1>18. WorldFit(Append(t, x), Len(t) + 1, forwarded)
    BY <1>7, <1>8, <1>14, <1>15, PlainPush
  <1>19. DeliveryInvOn(Append(t, x), forwarded, "none")
    BY <1>7, <1>8, <1>14, <1>16, <1>17, <1>18, FitIsOpen, PushDelivery
  <1> QED BY <1>3, <1>19 DEF DeliveryInv, t

LEMMA ContractDelivery == TypeOK /\ DeliveryInv /\ Contract => DeliveryInv'
  <1> SUFFICES ASSUME TypeOK, DeliveryInv, Contract PROVE DeliveryInv'
    OBVIOUS
  <1>0. world \in World /\ stack \in Seq(Frame)
    BY DEF TypeOK
  <1>1. ASSUME NEW d \in Dispatchers, NEW t \in Sponsors, NEW b \in BatchIds,
               NEW ops \in Batches, ExecuteBatch(d, t, b, ops)
        PROVE  DeliveryInv'
    <2> DEFINE f == BatchFrame(world, d, t, b, ops)
    <2>1. ops \in Seq(Ops)
      BY SeqDef, ConstantsAssumption DEF Batches
    <2>2. f \in Frame
      BY <1>0, <2>1, NewFrames
    <2>3. f.kind = "batch" /\ SameCounts(f.saved, world)
      BY DEF BatchFrame, SameCounts
    <2>4. stack' = Append(stack, f) /\ Top.kind = "external"
      BY <1>1 DEF ExecuteBatch, Running
    <2>5. SameCounts(world', world)
      BY <1>0, <1>1 DEF ExecuteBatch, World, SameCounts
    <2> HIDE DEF f
    <2> QED BY <2>2, <2>3, <2>4, <2>5, DeliveryPushed
  <1>2. CASE RefuseEntry
    BY <1>2, DeliveryAdvanced DEF RefuseEntry, AtEntry, SameCounts
  <1>3. CASE FailEntry
    BY <1>0, <1>3, DeliveryAdvanced DEF FailEntry, AtEntry, MarkSeen, World, SameCounts
  <1>4. CASE CallWallet
    BY <1>4, CallDelivery
  <1>5. CASE FinishMint
    <2>1. /\ stack # <<>> /\ Top.kind = "mint" /\ stack' = Below
          /\ world' = ClearMintContext(world, Top.wallet)
      BY <1>5 DEF FinishMint, Running
    <2>2. /\ world'.delivered = world.delivered
          /\ \A u \in Wallets : u # Top.wallet => world'.ctx[u] = world.ctx[u]
      BY <1>0, <2>1 DEF ClearMintContext, World
    <2>3. Len(stack) \in Nat \ {0}
      BY <2>1, TopFrame
    <2>4. ASSUME NEW i \in 1..(Len(stack) - 1), stack[i].kind = "mint"
          PROVE  /\ i \in 1..Len(stack)
                 /\ stack[i].wallet \in Wallets /\ stack[i].wallet # Top.wallet
      <3>1. i \in 1..Len(stack) /\ Len(stack) \in 1..Len(stack) /\ i < Len(stack)
        BY <2>3
      <3> QED BY <2>1, <2>4, <3>1, MintWallets
              DEF DeliveryInv, DeliveryInvOn, DistinctMints, Top
    <2>5. WorldFit(stack, Len(stack), world) => WorldFit(stack, Len(stack) - 1, world')
      BY <2>2, <2>4 DEF WorldFit, DeliveredIn
    <2> QED BY <2>1, <2>5, DeliveryReturned
  <1>6. CASE RevertMint
    BY <1>6, DeliveryRestored DEF RevertMint, RevertTop, Running
  <1>7. CASE EmitWalletExecution
    BY <1>0, <1>7, DeliveryAdvanced DEF EmitWalletExecution, World, SameCounts
  <1>a. ASSUME stack # <<>>
        PROVE  WorldFit(stack, Len(stack), world) => WorldFit(stack, Len(stack) - 1, world)
    BY <1>a, TopFrame DEF WorldFit
  <1>8. CASE FinishBatch
    <2>1. SameCounts(world', world)
      BY <1>0, <1>8 DEF FinishBatch, World, SameCounts
    <2> QED BY <1>8, <1>a, <2>1, CountsDecide, DeliveryReturned DEF FinishBatch, Running
  <1>9. CASE BatchOutOfGas
    BY <1>9, DeliveryRestored DEF BatchOutOfGas, Running
  <1>10. ASSUME NEW w \in Wallets, NEW isNft \in BOOLEAN, NEW isMint \in BOOLEAN,
                NEW units \in 1..MaxSupply, ForwardReceipt(w, isNft, isMint, units)
         PROVE  DeliveryInv'
    BY <1>10, ForwardDelivery
  <1>11. CASE FinishCallback
    BY <1>11, <1>a, DeliveryReturned DEF FinishCallback, Running
  <1>12. CASE RevertCallback
    BY <1>12, DeliveryRestored DEF RevertCallback, Running
  <1> QED BY <1>1, <1>2, <1>3, <1>4, <1>5, <1>6, <1>7, <1>8, <1>9, <1>10, <1>11, <1>12
          DEF Contract

LEMMA EnvironmentDelivery == TypeOK /\ DeliveryInv /\ Environment => DeliveryInv'
  <1> SUFFICES ASSUME TypeOK, DeliveryInv, Environment PROVE DeliveryInv'
    OBVIOUS
  <1>0. world \in World /\ stack \in Seq(Frame)
    BY DEF TypeOK
  <1>1. ASSUME NEW w \in Wallets, NEW units \in 1..MaxSupply, KeepReceipt(w, units)
        PROVE  DeliveryInv'
    BY <1>0, <1>1, DeliveryKept DEF KeepReceipt, World, SameCounts
  <1>2. ASSUME NEW w \in Wallets, NEW amount \in 1..MaxDonation, SendEther(w, amount)
        PROVE  DeliveryInv'
    BY <1>0, <1>2, DeliveryKept DEF SendEther, World, SameCounts
  <1>3. CASE ExternalReturn
    <2>1. stack # <<>> /\ Top.kind = "external" /\ stack' = Below
      BY <1>3 DEF ExternalReturn, Running
    <2>2. WorldFit(stack, Len(stack), world) => WorldFit(stack, Len(stack) - 1, world')
      <3>1. CASE Below = <<>>
        <4>1. Len(stack) = 1
          BY <2>1, <3>1, TopFrame, EmptySeq
        <4> QED BY <4>1 DEF WorldFit
      <3>2. CASE Below # <<>>
        BY <1>3, <2>1, <3>2, TopFrame DEF ExternalReturn, WorldFit
      <3> QED BY <3>1, <3>2
    <2> QED BY <2>1, <2>2, DeliveryReturned
  <1>4. CASE ExternalRevert
    BY <1>4, DeliveryRestored DEF ExternalRevert, Running
  <1>5. CASE BeginTransaction
    <2> DEFINE f == ExternalFrame(world)
    <2>1. f \in Frame /\ f.kind = "external" /\ SameCounts(f.saved, world)
      BY <1>0, NewFrames DEF ExternalFrame, SameCounts
    <2>2. stack' = Append(stack, f) /\ SameCounts(world', world) /\ stack = <<>>
      BY <1>5 DEF BeginTransaction, SameCounts
    <2> HIDE DEF f
    <2> QED BY <2>1, <2>2, DeliveryPushed
  <1>6. ASSUME NEW w \in Wallets, NEW d \in Dispatchers \cup {NoDelegate}, Delegate(w, d)
        PROVE  DeliveryInv'
    BY <1>6, DeliveryKept DEF Delegate, SameCounts
  <1>7. CASE Tick
    BY <1>7, DeliveryKept DEF Tick, SameCounts
  <1> QED BY <1>1, <1>2, <1>3, <1>4, <1>5, <1>6, <1>7 DEF Environment

LEMMA DeliveryInvIsEnough == TypeOK /\ DeliveryInv => ForwardedIsDelivered
  <1> SUFFICES ASSUME TypeOK, DeliveryInv, NEW i \in 1..Len(stack),
                      stack[i].kind = "mint", ~Running("callback")
               PROVE  DeliveredIn(stack[i], world)
    BY DEF ForwardedIsDelivered, DeliveredIn
  <1>1. WorldFit(stack, Len(stack), world)
    BY TopDelivery DEF TypeOK, DeliveryInv, Running, Top
  <1> QED BY <1>1 DEF WorldFit

LEMMA DeliveryInvariant == Spec => []DeliveryInv
  <1>1. TypeOK /\ DeliveryInv /\ [Next]_vars => DeliveryInv'
    <2>1. ASSUME TypeOK, DeliveryInv, UNCHANGED vars PROVE DeliveryInv'
      BY <2>1, DeliveryKept DEF vars, SameCounts
    <2> QED BY <2>1, ContractDelivery, EnvironmentDelivery DEF Next
  <1> QED BY <1>1, InitDelivery, TypeCorrect, PTL DEF Spec

(***************************************************************************)
(* While a mint is open, the wallet's context counts exactly the units its *)
(* recipient has received since it opened, however deep the token          *)
(* callbacks nest and whichever of the forwards inside them are undone.    *)
(***************************************************************************)
THEOREM CountIsDelivered == Spec => []ForwardedIsDelivered
  BY DeliveryInvariant, TypeCorrect, DeliveryInvIsEnough, PTL
-----------------------------------------------------------------------------
(* What the promise adds up over a set of authorizations.                  *)
Units(T) == Promise!MapThenSumSet(LAMBDA a : UnitsOf[a.op], T)
Ether(T) == Promise!MapThenSumSet(LAMBDA a : ValueOf[a.op], T)

UnitsSigned == [a \in Signed |-> UnitsOf[a.op]]
EtherSigned == [a \in Signed |-> ValueOf[a.op]]

LEMMA SignedAmounts ==
  /\ UnitsSigned \in [Signed -> Nat] /\ EtherSigned \in [Signed -> Nat]
  /\ \A a \in Signed : UnitsSigned[a] = UnitsOf[a.op] /\ EtherSigned[a] = ValueOf[a.op]
  BY ConstantsAssumption DEF UnitsSigned, EtherSigned, Authorization

LEMMA UnitsAreSum ==
  ASSUME NEW T \in SUBSET Signed, IsFiniteSet(T), NEW h, Sums(h, UnitsSigned, T)
  PROVE  Units(T) = h[T]
  <1> DEFINE Solves(k) ==
               k = [s \in SUBSET T |->
                      IF s = {} THEN 0
                      ELSE UnitsOf[(CHOOSE x \in s : TRUE).op] + k[s \ {CHOOSE x \in s : TRUE}]]
  <1>1. \A s \in SUBSET T : s # {} => UnitsSigned[Pick(s)] = UnitsOf[Pick(s).op]
    BY SignedAmounts, Picked
  <1>2. PICK k : k = [s \in SUBSET T |-> k[s]] /\ Sums(k, UnitsSigned, T)
    BY SumExists
  <1>3. \A s \in SUBSET T :
          k[s] = IF s = {} THEN 0 ELSE UnitsOf[Pick(s).op] + k[s \ {Pick(s)}]
    BY <1>1, <1>2 DEF Sums
  <1>4. Solves(k)
    BY <1>2, <1>3 DEF Pick
  <1>5. PICK m : Solves(m) /\ Units(T) = m[T]
    BY <1>4 DEF Units, Promise!MapThenSumSet, Promise!MapThenFoldSet
  <1>6. \A s \in SUBSET T :
          m[s] = IF s = {} THEN 0 ELSE UnitsOf[Pick(s).op] + m[s \ {Pick(s)}]
    BY <1>5 DEF Pick
  <1>7. Sums(m, UnitsSigned, T)
    BY <1>1, <1>6 DEF Sums
  <1> QED BY <1>5, <1>7, SumsAgree

LEMMA EtherIsSum ==
  ASSUME NEW T \in SUBSET Signed, IsFiniteSet(T), NEW h, Sums(h, EtherSigned, T)
  PROVE  Ether(T) = h[T]
  <1> DEFINE Solves(k) ==
               k = [s \in SUBSET T |->
                      IF s = {} THEN 0
                      ELSE ValueOf[(CHOOSE x \in s : TRUE).op] + k[s \ {CHOOSE x \in s : TRUE}]]
  <1>1. \A s \in SUBSET T : s # {} => EtherSigned[Pick(s)] = ValueOf[Pick(s).op]
    BY SignedAmounts, Picked
  <1>2. PICK k : k = [s \in SUBSET T |-> k[s]] /\ Sums(k, EtherSigned, T)
    BY SumExists
  <1>3. \A s \in SUBSET T :
          k[s] = IF s = {} THEN 0 ELSE ValueOf[Pick(s).op] + k[s \ {Pick(s)}]
    BY <1>1, <1>2 DEF Sums
  <1>4. Solves(k)
    BY <1>2, <1>3 DEF Pick
  <1>5. PICK m : Solves(m) /\ Ether(T) = m[T]
    BY <1>4 DEF Ether, Promise!MapThenSumSet, Promise!MapThenFoldSet
  <1>6. \A s \in SUBSET T :
          m[s] = IF s = {} THEN 0 ELSE ValueOf[Pick(s).op] + m[s \ {Pick(s)}]
    BY <1>5 DEF Pick
  <1>7. Sums(m, EtherSigned, T)
    BY <1>1, <1>6 DEF Sums
  <1> QED BY <1>5, <1>7, SumsAgree

(* One more authorization adds its amount.                                 *)
LEMMA AmountsAdd ==
  ASSUME NEW T \in SUBSET Signed, IsFiniteSet(T)
  PROVE  /\ Units({}) = 0 /\ Ether({}) = 0
         /\ Units(T) \in Nat /\ Ether(T) \in Nat
         /\ \A a \in Signed \ T : /\ Units(T \cup {a}) = Units(T) + UnitsOf[a.op]
                                  /\ Ether(T \cup {a}) = Ether(T) + ValueOf[a.op]
  <1>1. ASSUME NEW S \in SUBSET Signed, IsFiniteSet(S), NEW g \in [Signed -> Nat]
        PROVE  \E h : /\ \A R \in SUBSET S : Sums(h, g, R) /\ IsFiniteSet(R)
                      /\ h[S] \in Nat /\ h[{}] = 0
                      /\ \A a \in S : h[S] = h[S \ {a}] + g[a]
    <2>1. PICK h : Sums(h, g, S)
      BY <1>1, SumExists
    <2>2. Sums(h, [x \in S |-> g[x]], S) /\ [x \in S |-> g[x]] \in [S -> Nat]
      BY <2>1, Picked DEF Sums
    <2>3. h[S] \in Nat /\ \A a \in S : h[S] = g[a] + h[S \ {a}] /\ h[S \ {a}] \in Nat
      <3> DEFINE f == [x \in S |-> g[x]]
      <3>1. \A a \in S : f[a] = g[a]
        OBVIOUS
      <3> HIDE DEF f
      <3> QED BY <1>1, <2>2, <3>1, SumsAreNatural, SumTakesAny
    <2>4. \A R \in SUBSET S : Sums(h, g, R) /\ IsFiniteSet(R)
      BY <1>1, <2>1, FS_Subset DEF Sums
    <2>5. h[{}] = 0
      BY <2>1 DEF Sums
    <2>6. \A a \in S : h[S] = h[S \ {a}] + g[a]
      BY <2>3
    <2> QED BY <2>3, <2>4, <2>5, <2>6
  <1>2. Units(T) \in Nat /\ Units({}) = 0
    BY <1>1, SignedAmounts, UnitsAreSum
  <1>3. Ether(T) \in Nat /\ Ether({}) = 0
    BY <1>1, SignedAmounts, EtherIsSum
  <1>4. ASSUME NEW a \in Signed \ T
        PROVE  /\ Units(T \cup {a}) = Units(T) + UnitsOf[a.op]
               /\ Ether(T \cup {a}) = Ether(T) + ValueOf[a.op]
    <2> DEFINE B == T \cup {a}
    <2>1. B \in SUBSET Signed /\ a \in B /\ B \ {a} = T /\ T \in SUBSET B
      OBVIOUS
    <2>2. IsFiniteSet(B)
      BY FS_AddElement
    <2> HIDE DEF B
    <2>3. Units(B) = Units(T) + UnitsOf[a.op]
      <3>1. PICK h : /\ \A R \in SUBSET B : Sums(h, UnitsSigned, R) /\ IsFiniteSet(R)
                     /\ h[B] \in Nat /\ h[{}] = 0
                     /\ \A x \in B : h[B] = h[B \ {x}] + UnitsSigned[x]
        BY <1>1, <2>1, <2>2, SignedAmounts
      <3>2. Units(B) = h[B] /\ Units(T) = h[T]
        BY <2>1, <2>2, <3>1, UnitsAreSum
      <3>3. h[B] = h[T] + UnitsSigned[a]
        BY <2>1, <3>1
      <3> QED BY <3>2, <3>3, SignedAmounts
    <2>4. Ether(B) = Ether(T) + ValueOf[a.op]
      <3>1. PICK h : /\ \A R \in SUBSET B : Sums(h, EtherSigned, R) /\ IsFiniteSet(R)
                     /\ h[B] \in Nat /\ h[{}] = 0
                     /\ \A x \in B : h[B] = h[B \ {x}] + EtherSigned[x]
        BY <1>1, <2>1, <2>2, SignedAmounts
      <3>2. Ether(B) = h[B] /\ Ether(T) = h[T]
        BY <2>1, <2>2, <3>1, EtherIsSum
      <3>3. h[B] = h[T] + EtherSigned[a]
        BY <2>1, <3>1
      <3> QED BY <3>2, <3>3, SignedAmounts
    <2> QED BY <2>3, <2>4 DEF B
  <1> QED BY <1>2, <1>3, <1>4
-----------------------------------------------------------------------------
(***************************************************************************)
(* Why the contract keeps its promise.  Since the transaction began, in    *)
(* every world and for every wallet, what was delivered and spent is what  *)
(* the authorizations that succeeded say: except for a wallet whose mint   *)
(* is open, about which the frame of the mint knows where it started, and  *)
(* for the entry of the batch to which a mint has just returned, which is  *)
(* paid and delivered but not counted yet.                                 *)
(***************************************************************************)
Gained(base, wld, w) ==
  {a \in Signed : WalletOf[a.op] = w /\ wld.runs[a] > 0 /\ ~(base.runs[a] > 0)}

Spent(wld, w) == wld.donated[w] - wld.ether[w]

Balanced(base, wld, w, units, ether) ==
  /\ wld.delivered[w] = base.delivered[w] + Units(Gained(base, wld, w)) + units
  /\ Spent(wld, w) = Spent(base, w) + Ether(Gained(base, wld, w)) + ether

(* What succeeded since belongs to batches that were not used at the start.*)
Since(base, wld) ==
  /\ base.used \subseteq wld.used
  /\ \A a \in Signed : base.runs[a] > 0 => wld.runs[a] > 0
  /\ \A a \in Signed : wld.runs[a] > 0 /\ ~(base.runs[a] > 0) => KeyOf(a) \notin base.used
  /\ \A w \in Wallets : IsFiniteSet(Gained(base, wld, w))

Open(s, n, w) == \E i \in 1..n : s[i].kind = "mint" /\ s[i].wallet = w

(* While its mint is open, nothing else is counted for a wallet.           *)
SameAccount(f, wld) ==
  /\ wld.donated[f.wallet] = f.saved.donated[f.wallet]
  /\ \A a \in AuthorizedBy(f.wallet) : wld.runs[a] = f.saved.runs[a]

WorldKept(s, n, wld) ==
  /\ Since(s[1].saved, wld)
  /\ \A w \in Wallets : wld.ctx[w].active => Open(s, n, w)
  /\ \A i \in 1..n : s[i].kind = "mint" => SameAccount(s[i], wld)

WorldSettled(s, n, wld) ==
  \A w \in Wallets : Open(s, n, w) \/ Balanced(s[1].saved, wld, w, 0, 0)

(* A mint has returned to its batch.                                       *)
Returning(s, r) == s[Len(s)].kind = "batch" /\ r = "ok"

WorldOwes(s, n, wld) ==
  LET f == s[n]
  IN /\ EntryDigest(f) \in Signed
     /\ ~Open(s, n, EntryWallet(f))
     /\ Balanced(s[1].saved, wld, EntryWallet(f), UnitsOf[Entry(f)], ValueOf[Entry(f)])
     /\ \A w \in Wallets \ {EntryWallet(f)} :
          Open(s, n, w) \/ Balanced(s[1].saved, wld, w, 0, 0)

(* Which frame calls which.                                                *)
CalledBy(f, g) ==
  /\ f.kind = "external" => g.kind \in {"mint", "callback"}
  /\ f.kind \in {"batch", "callback"} => g.kind = "external"
  /\ f.kind = "mint" =>
       g.kind = "batch" /\ EntryDigest(g) \in Signed
         /\ f.op = Entry(g) /\ f.wallet = EntryWallet(g)

Nested(s) ==
  /\ s[1].kind = "external"
  /\ \A i \in 2..Len(s) : CalledBy(s[i], s[i - 1])

LedgerOn(s, wld, r) ==
  IF s = <<>> THEN \A w \in Wallets : ~wld.ctx[w].active
  ELSE /\ Nested(s)
       /\ \A j \in 1..(Len(s) + 1) : WorldKept(s, j - 1, WorldAt(s, wld, j))
       /\ \A j \in 1..Len(s) : WorldSettled(s, j - 1, WorldAt(s, wld, j))
       /\ IF Returning(s, r) THEN WorldOwes(s, Len(s), wld) ELSE WorldSettled(s, Len(s), wld)

Ledger == LedgerOn(stack, world, ret)
-----------------------------------------------------------------------------
(* All that the ledger reads of a world.                                   *)
Alike(v, wld) ==
  /\ wld.used \subseteq v.used /\ v.runs = wld.runs
  /\ v.delivered = wld.delivered /\ v.donated = wld.donated /\ v.ether = wld.ether
  /\ \A w \in Wallets : v.ctx[w].active => wld.ctx[w].active

LEMMA AlikeGains ==
  ASSUME NEW v, NEW wld, v.runs = wld.runs, NEW base, NEW w
  PROVE  Gained(base, v, w) = Gained(base, wld, w)
  BY DEF Gained

LEMMA AlikeBalances ==
  ASSUME NEW v, NEW wld, Alike(v, wld), NEW base, NEW w, NEW units, NEW ether
  PROVE  Balanced(base, wld, w, units, ether) => Balanced(base, v, w, units, ether)
  BY AlikeGains DEF Alike, Balanced, Spent

LEMMA AlikeLedger ==
  ASSUME NEW v, NEW wld, Alike(v, wld), NEW s, NEW n
  PROVE  /\ WorldKept(s, n, wld) => WorldKept(s, n, v)
         /\ WorldSettled(s, n, wld) => WorldSettled(s, n, v)
         /\ WorldOwes(s, n, wld) => WorldOwes(s, n, v)
  <1>1. ASSUME NEW base, Since(base, wld) PROVE Since(base, v)
    BY <1>1, AlikeGains DEF Alike, Since
  <1>2. ASSUME NEW f, SameAccount(f, wld) PROVE SameAccount(f, v)
    BY <1>2 DEF Alike, SameAccount
  <1>3. WorldKept(s, n, wld) => WorldKept(s, n, v)
    BY <1>1, <1>2 DEF WorldKept, Alike
  <1>4. WorldSettled(s, n, wld) => WorldSettled(s, n, v)
    BY AlikeBalances DEF WorldSettled
  <1>5. WorldOwes(s, n, wld) => WorldOwes(s, n, v)
    BY AlikeBalances DEF WorldOwes
  <1> QED BY <1>3, <1>4, <1>5

(* Two stacks whose first n frames differ only in the entry of a batch.    *)
LEMMA SameFrames ==
  ASSUME NEW s, NEW t, NEW n, NEW wld, t[1].saved = s[1].saved,
         \A i \in 1..n : /\ t[i].kind = s[i].kind
                         /\ s[i].kind = "mint" => t[i] = s[i]
  PROVE  /\ WorldKept(s, n, wld) <=> WorldKept(t, n, wld)
         /\ WorldSettled(s, n, wld) <=> WorldSettled(t, n, wld)
         /\ \A w : Open(s, n, w) <=> Open(t, n, w)
  <1>1. \A w : Open(s, n, w) <=> Open(t, n, w)
    BY DEF Open
  <1>2. WorldKept(s, n, wld) <=> WorldKept(t, n, wld)
    BY <1>1 DEF WorldKept
  <1> QED BY <1>1, <1>2 DEF WorldSettled

LEMMA TopLedger ==
  ASSUME NEW s \in Seq(Frame), s # <<>>, NEW wld, NEW r, LedgerOn(s, wld, r)
  PROVE  /\ Len(s) \in Nat \ {0}
         /\ Nested(s)
         /\ WorldKept(s, Len(s), wld)
         /\ WorldKept(s, Len(s) - 1, s[Len(s)].saved)
         /\ WorldSettled(s, Len(s) - 1, s[Len(s)].saved)
         /\ IF Returning(s, r) THEN WorldOwes(s, Len(s), wld) ELSE WorldSettled(s, Len(s), wld)
  <1>1. Len(s) \in Nat \ {0}
    BY EmptySeq
  <1> DEFINE n == Len(s)
  <1>2. /\ n \in 1..(n + 1) /\ n \in 1..n /\ n + 1 \in 1..(n + 1) /\ n + 1 - 1 = n
        /\ WorldAt(s, wld, n) = s[n].saved /\ WorldAt(s, wld, n + 1) = wld
    BY <1>1 DEF WorldAt
  <1>3. WorldKept(s, n, wld)
    BY <1>2 DEF LedgerOn
  <1> QED BY <1>1, <1>2, <1>3 DEF LedgerOn

(* The top frame stays, its world changes.                                 *)
LEMMA KeepLedger ==
  ASSUME NEW s \in Seq(Frame), s # <<>>, NEW wld, NEW r, LedgerOn(s, wld, r), NEW v,
         WorldKept(s, Len(s), v),
         IF Returning(s, r) THEN WorldOwes(s, Len(s), v) ELSE WorldSettled(s, Len(s), v)
  PROVE  LedgerOn(s, v, r)
  <1>1. Len(s) \in Nat \ {0}
    BY EmptySeq
  <1>2. ASSUME NEW j \in 1..(Len(s) + 1) PROVE WorldKept(s, j - 1, WorldAt(s, v, j))
    <2>1. CASE j = Len(s) + 1
      BY <1>1, <2>1 DEF WorldAt
    <2>2. CASE j \in 1..Len(s)
      <3>1. WorldAt(s, v, j) = WorldAt(s, wld, j)
        BY <1>1, <2>2 DEF WorldAt
      <3> QED BY <3>1 DEF LedgerOn
    <2> QED BY <1>1, <2>1, <2>2
  <1>3. \A j \in 1..Len(s) : WorldAt(s, v, j) = WorldAt(s, wld, j)
    BY <1>1 DEF WorldAt
  <1> QED BY <1>2, <1>3 DEF LedgerOn

(* The top frame is popped.                                                *)
LEMMA PopLedger ==
  ASSUME NEW s \in Seq(Frame), s # <<>>, NEW wld, NEW r, LedgerOn(s, wld, r), NEW v, NEW q,
         WorldKept(s, Len(s) - 1, v),
         IF Len(s) > 1 /\ s[Len(s) - 1].kind = "batch" /\ q = "ok"
         THEN WorldOwes(s, Len(s) - 1, v) ELSE WorldSettled(s, Len(s) - 1, v)
  PROVE  LedgerOn(SubSeq(s, 1, Len(s) - 1), v, q)
  <1> DEFINE n == Len(s) - 1
             t == SubSeq(s, 1, n)
  <1>1. /\ n \in Nat /\ Len(s) = n + 1 /\ t \in Seq(Frame) /\ Len(t) = n
        /\ \A i \in 1..n : t[i] = s[i]
    BY PopFrame
  <1>2. WorldKept(s, n, v)
    OBVIOUS
  <1>3. IF n > 0 /\ s[n].kind = "batch" /\ q = "ok"
        THEN WorldOwes(s, n, v) ELSE WorldSettled(s, n, v)
    BY <1>1
  <1> HIDE DEF t, n
  <1>4. CASE t = <<>>
    <2>1. n = 0
      BY <1>1, <1>4, EmptySeq
    <2>2. \A w \in Wallets : ~v.ctx[w].active
      BY <1>2, <2>1 DEF WorldKept, Open
    <2> QED BY <1>4, <2>2 DEF LedgerOn, t, n
  <1>5. CASE t # <<>>
    <2>1. n > 0 /\ t[1] = s[1] /\ t[n] = s[n]
      BY <1>1, <1>5, EmptySeq
    <2>2. ASSUME NEW j \in 1..n
          PROVE  /\ WorldKept(t, j - 1, WorldAt(t, v, j))
                 /\ WorldSettled(t, j - 1, WorldAt(t, v, j))
      <3>1. j \in 1..(Len(s) + 1) /\ j \in 1..Len(s) /\ \A i \in 1..(j - 1) : t[i] = s[i]
        BY <1>1
      <3>2. WorldAt(t, v, j) = WorldAt(s, wld, j)
        BY <1>1, <3>1 DEF WorldAt
      <3>3. /\ WorldKept(s, j - 1, WorldAt(s, wld, j))
            /\ WorldSettled(s, j - 1, WorldAt(s, wld, j))
        BY <3>1 DEF LedgerOn
      <3> QED BY <2>1, <3>1, <3>2, <3>3, SameFrames
    <2>3. WorldKept(t, n, v) /\ (WorldSettled(s, n, v) => WorldSettled(t, n, v))
      BY <1>1, <1>2, <2>1, SameFrames
    <2>4. WorldOwes(s, n, v) => WorldOwes(t, n, v)
      <3>1. \A w : Open(s, n, w) <=> Open(t, n, w)
        BY <1>1 DEF Open
      <3> QED BY <2>1, <3>1 DEF WorldOwes
    <2>5. Nested(t)
      <3>1. \A i \in 2..n : i \in 2..Len(s) /\ i \in 1..n /\ i - 1 \in 1..n
        BY <1>1
      <3> QED BY <1>1, <2>1, <3>1 DEF Nested, LedgerOn
    <2>6. WorldAt(t, v, n + 1) = v /\ n + 1 - 1 = n
      BY <1>1 DEF WorldAt
    <2>7. \A j \in 1..(n + 1) : j \in 1..n \/ j = n + 1
      BY <1>1
    <2>8. LedgerOn(t, v, q)
      BY <1>1, <1>3, <1>5, <2>1, <2>2, <2>3, <2>4, <2>5, <2>6, <2>7 DEF LedgerOn, Returning
    <2> QED BY <2>8 DEF t, n
  <1> QED BY <1>4, <1>5

(* A frame is pushed on another.                                           *)
LEMMA PushLedger ==
  ASSUME NEW s \in Seq(Frame), s # <<>>, NEW wld, NEW r, LedgerOn(s, wld, r),
         NEW f \in Frame, NEW v, NEW q, CalledBy(f, s[Len(s)]),
         WorldKept(s, Len(s), f.saved), WorldSettled(s, Len(s), f.saved),
         WorldKept(Append(s, f), Len(s) + 1, v), WorldSettled(Append(s, f), Len(s) + 1, v),
         f.kind # "batch" \/ q # "ok"
  PROVE  LedgerOn(Append(s, f), v, q)
  <1> DEFINE n == Len(s)
             t == Append(s, f)
  <1>1. /\ n \in Nat \ {0} /\ t # <<>> /\ Len(t) = n + 1
        /\ (\A i \in 1..n : t[i] = s[i]) /\ t[n + 1] = f
    BY PushFrame, EmptySeq
  <1>2. /\ CalledBy(f, s[n])
        /\ WorldKept(s, n, f.saved) /\ WorldSettled(s, n, f.saved)
        /\ WorldKept(t, n + 1, v) /\ WorldSettled(t, n + 1, v)
    OBVIOUS
  <1> HIDE DEF t, n
  <1>3. t[1] = s[1] /\ t[n] = s[n]
    BY <1>1
  <1>4. ASSUME NEW j \in 1..(n + 1)
        PROVE  /\ WorldKept(t, j - 1, WorldAt(t, v, j))
               /\ WorldSettled(t, j - 1, WorldAt(t, v, j))
    <2>1. \A i \in 1..(j - 1) : t[i] = s[i]
      BY <1>1
    <2>2. CASE j = n + 1
      <3>1. WorldAt(t, v, j) = f.saved /\ j - 1 = n
        BY <1>1, <2>2 DEF WorldAt
      <3>2. /\ t[1].saved = s[1].saved
            /\ \A i \in 1..n : t[i].kind = s[i].kind /\ (s[i].kind = "mint" => t[i] = s[i])
        BY <1>1, <1>3
      <3>3. WorldKept(t, n, f.saved) /\ WorldSettled(t, n, f.saved)
        BY <1>2, <3>2, SameFrames
      <3> QED BY <3>1, <3>3
    <2>3. CASE j \in 1..n
      <3>1. j \in 1..(Len(s) + 1) /\ j \in 1..Len(s)
        BY <1>1, <2>3 DEF n
      <3>2. WorldAt(t, v, j) = WorldAt(s, wld, j)
        BY <1>1, <2>3 DEF WorldAt, n
      <3>3. /\ WorldKept(s, j - 1, WorldAt(s, wld, j))
            /\ WorldSettled(s, j - 1, WorldAt(s, wld, j))
        BY <3>1 DEF LedgerOn
      <3> QED BY <1>3, <2>1, <3>2, <3>3, SameFrames
    <2> QED BY <1>1, <2>2, <2>3
  <1>5. Nested(t)
    <2>1. \A i \in 2..(n + 1) : i = n + 1 \/ (i \in 2..n /\ i \in 1..n /\ i - 1 \in 1..n)
      BY <1>1
    <2>2. Nested(s)
      BY DEF LedgerOn
    <2>3. t[n + 1 - 1] = s[n]
      BY <1>1
    <2> QED BY <1>1, <1>2, <1>3, <2>1, <2>2, <2>3 DEF Nested, n
  <1>6. WorldAt(t, v, n + 2) = v /\ n + 2 - 1 = n + 1 /\ Len(t) + 1 = n + 2
    BY <1>1 DEF WorldAt
  <1>7. \A j \in 1..(n + 2) : j \in 1..(n + 1) \/ j = n + 2
    BY <1>1
  <1>8. ~Returning(t, q)
    BY <1>1 DEF Returning
  <1>9. LedgerOn(t, v, q)
    BY <1>1, <1>2, <1>4, <1>5, <1>6, <1>7, <1>8 DEF LedgerOn
  <1> QED BY <1>9 DEF t

(* A batch turns to its next entry.                                        *)
LEMMA AdvanceLedger ==
  ASSUME NEW s \in Seq(Frame), s # <<>>, NEW wld, NEW r, LedgerOn(s, wld, r), NEW v, NEW q,
         s[Len(s)].kind = "batch",
         WorldKept(s, Len(s), v), WorldSettled(s, Len(s), v), q # "ok"
  PROVE  LedgerOn([s EXCEPT ![Len(s)].next = @ + 1], v, q)
  <1> DEFINE n == Len(s)
             t == [s EXCEPT ![n].next = @ + 1]
  <1>1. /\ n \in Nat \ {0} /\ Len(t) = n
        /\ \A i \in 1..(n - 1) : t[i] = s[i]
        /\ t[n].kind = "batch" /\ t[n].saved = s[n].saved
    BY AdvanceFrame
  <1>2. s[n].kind = "batch" /\ WorldKept(s, n, v) /\ WorldSettled(s, n, v)
    OBVIOUS
  <1>3. t # <<>>
    BY <1>1, EmptySeq
  <1> HIDE DEF t, n
  <1>4. /\ \A i \in 1..n : i \in 1..(n - 1) \/ i = n
        /\ t[1].saved = s[1].saved /\ t[1].kind = s[1].kind
    BY <1>1, <1>2
  <1>5. \A i \in 1..n : /\ t[i].kind = s[i].kind /\ t[i].saved = s[i].saved
                        /\ s[i].kind = "mint" => t[i] = s[i]
    BY <1>1, <1>2, <1>4
  <1>6. WorldKept(t, n, v) /\ WorldSettled(t, n, v)
    BY <1>2, <1>4, <1>5, SameFrames
  <1>7. ASSUME NEW j \in 1..n
        PROVE  /\ WorldKept(t, j - 1, WorldAt(t, v, j))
               /\ WorldSettled(t, j - 1, WorldAt(t, v, j))
    <2>1. \A i \in 1..(j - 1) : i \in 1..n
      BY <1>1
    <2>2. WorldAt(t, v, j) = WorldAt(s, wld, j)
      BY <1>1, <1>5 DEF WorldAt, n
    <2>3. j \in 1..(Len(s) + 1) /\ j \in 1..Len(s)
      BY <1>1 DEF n
    <2>4. /\ WorldKept(s, j - 1, WorldAt(s, wld, j))
          /\ WorldSettled(s, j - 1, WorldAt(s, wld, j))
      BY <2>3 DEF LedgerOn
    <2> QED BY <1>4, <1>5, <2>1, <2>2, <2>4, SameFrames
  <1>8. Nested(t)
    <2>1. Nested(s)
      BY DEF LedgerOn
    <2>2. ASSUME NEW i \in 2..n PROVE CalledBy(t[i], t[i - 1])
      <3>1. i \in 2..Len(s) /\ i - 1 \in 1..(n - 1) /\ i \in 1..n
        BY <1>1 DEF n
      <3>2. t[i - 1] = s[i - 1] /\ CalledBy(s[i], s[i - 1])
        BY <1>1, <2>1, <3>1 DEF Nested
      <3>3. t[i] = s[i] \/ (t[i].kind = "batch" /\ s[i].kind = "batch")
        BY <1>1, <1>2, <1>4, <3>1
      <3> QED BY <3>2, <3>3 DEF CalledBy
    <2> QED BY <1>1, <1>4, <2>1, <2>2 DEF Nested
  <1>9. WorldAt(t, v, n + 1) = v /\ n + 1 - 1 = n
    BY <1>1 DEF WorldAt
  <1>10. \A j \in 1..(n + 1) : j \in 1..n \/ j = n + 1
    BY <1>1
  <1>11. LedgerOn(t, v, q)
    BY <1>1, <1>3, <1>6, <1>7, <1>8, <1>9, <1>10 DEF LedgerOn, Returning
  <1> QED BY <1>11 DEF t, n
-----------------------------------------------------------------------------
LEMMA InitLedger == Init => Ledger
  BY ConstantsAssumption DEF Init, Ledger, LedgerOn, GenesisWorld, ClearContext

LEMMA LedgerKept ==
  ASSUME TypeOK, Ledger, UNCHANGED <<stack, ret>>, Alike(world', world)
  PROVE  Ledger'
  <1>1. CASE stack = <<>>
    BY <1>1 DEF Ledger, LedgerOn, Alike
  <1>2. CASE stack # <<>>
    <2>1. LedgerOn(stack, world', ret)
      BY <1>2, TopLedger, AlikeLedger, KeepLedger DEF TypeOK, Ledger
    <2> QED BY <2>1 DEF Ledger
  <1> QED BY <1>1, <1>2

(* What is on top, seen from the state.                                    *)
LEMMA LedgerTop ==
  ASSUME TypeOK, Ledger, stack # <<>>
  PROVE  /\ Len(stack) \in Nat \ {0}
         /\ Nested(stack)
         /\ WorldKept(stack, Len(stack), world)
         /\ WorldKept(stack, Len(stack) - 1, Top.saved)
         /\ WorldSettled(stack, Len(stack) - 1, Top.saved)
         /\ IF Returning(stack, ret) THEN WorldOwes(stack, Len(stack), world)
                                     ELSE WorldSettled(stack, Len(stack), world)
  BY TopLedger DEF TypeOK, Ledger, Top

LEMMA LedgerAdvanced ==
  ASSUME TypeOK, Ledger, Running("batch"), NextEntry, ret' # "ok",
         WorldKept(stack, Len(stack), world'), WorldSettled(stack, Len(stack), world')
  PROVE  Ledger'
  <1>1. LedgerOn([stack EXCEPT ![Len(stack)].next = @ + 1], world', ret')
    BY AdvanceLedger DEF TypeOK, Ledger, Running, Top
  <1> QED BY <1>1 DEF Ledger, NextEntry

(* A frame that is no mint is popped.                                      *)
LEMMA UnderPlain ==
  ASSUME NEW s, NEW n \in Nat \ {0}, s[n].kind # "mint", NEW v
  PROVE  /\ WorldKept(s, n, v) => WorldKept(s, n - 1, v)
         /\ WorldSettled(s, n, v) => WorldSettled(s, n - 1, v)
  <1>1. \A i \in 1..n : i \in 1..(n - 1) \/ i = n
    OBVIOUS
  <1>2. \A i \in 1..(n - 1) : i \in 1..n
    OBVIOUS
  <1>3. \A w : Open(s, n, w) => Open(s, n - 1, w)
    BY <1>1 DEF Open
  <1>4. WorldKept(s, n, v) => WorldKept(s, n - 1, v)
    BY <1>2, <1>3 DEF WorldKept
  <1> QED BY <1>3, <1>4 DEF WorldSettled

LEMMA LedgerReturned ==
  ASSUME TypeOK, Ledger, stack # <<>>, stack' = Below, Top.kind # "mint",
         Top.kind # "batch" \/ ret # "ok", Alike(world', world),
         Len(stack) > 1 => stack[Len(stack) - 1].kind # "batch" \/ ret' # "ok"
  PROVE  Ledger'
  <1> DEFINE n == Len(stack)
  <1>1. n \in Nat \ {0} /\ WorldKept(stack, n, world) /\ WorldSettled(stack, n, world)
    BY LedgerTop DEF Returning, Top
  <1>2. WorldKept(stack, n, world') /\ WorldSettled(stack, n, world')
    BY <1>1, AlikeLedger
  <1>3. WorldKept(stack, n - 1, world') /\ WorldSettled(stack, n - 1, world')
    BY <1>1, <1>2, UnderPlain DEF Top
  <1>4. LedgerOn(Below, world', ret')
    BY <1>3, PopLedger DEF TypeOK, Ledger, Below
  <1> QED BY <1>4 DEF Ledger

LEMMA LedgerRestored ==
  ASSUME TypeOK, Ledger, stack # <<>>, stack' = Below, world' = Top.saved, ret' # "ok"
  PROVE  Ledger'
  <1>1. /\ WorldKept(stack, Len(stack) - 1, world')
        /\ WorldSettled(stack, Len(stack) - 1, world')
    BY LedgerTop
  <1>2. LedgerOn(Below, world', ret')
    BY <1>1, PopLedger DEF TypeOK, Ledger, Below
  <1> QED BY <1>2 DEF Ledger

(* A frame that opens no mint is pushed on a stack.                        *)
LEMMA PlainLedger ==
  ASSUME NEW s \in Seq(Frame), s # <<>>, NEW f \in Frame, f.kind # "mint", NEW v
  PROVE  /\ WorldKept(s, Len(s), v) => WorldKept(Append(s, f), Len(s) + 1, v)
         /\ WorldSettled(s, Len(s), v) => WorldSettled(Append(s, f), Len(s) + 1, v)
  <1> DEFINE n == Len(s)
             t == Append(s, f)
  <1>1. n \in Nat \ {0} /\ (\A i \in 1..n : t[i] = s[i]) /\ t[n + 1] = f
    BY PushFrame, EmptySeq
  <1> HIDE DEF t, n
  <1>2. t[1] = s[1] /\ \A i \in 1..n : i \in 1..(n + 1)
    BY <1>1
  <1>3. \A i \in 1..(n + 1) : i \in 1..n \/ i = n + 1
    BY <1>1
  <1>4. \A w : Open(s, n, w) => Open(t, n + 1, w)
    BY <1>1, <1>2 DEF Open
  <1>5. WorldKept(s, n, v) => WorldKept(t, n + 1, v)
    BY <1>1, <1>2, <1>3, <1>4 DEF WorldKept
  <1>6. WorldSettled(s, n, v) => WorldSettled(t, n + 1, v)
    BY <1>2, <1>4 DEF WorldSettled
  <1> QED BY <1>5, <1>6 DEF t, n

LEMMA LedgerPushed ==
  ASSUME TypeOK, Ledger, stack # <<>>, Top.kind # "batch" \/ ret # "ok",
         NEW f \in Frame, f.kind # "mint", CalledBy(f, Top), f.kind # "batch" \/ ret' # "ok",
         Alike(f.saved, world), Alike(world', world), stack' = Append(stack, f)
  PROVE  Ledger'
  <1> DEFINE n == Len(stack)
  <1>1. WorldKept(stack, n, world) /\ WorldSettled(stack, n, world)
    BY LedgerTop DEF Returning, Top
  <1>2. /\ WorldKept(stack, n, world') /\ WorldSettled(stack, n, world')
        /\ WorldKept(stack, n, f.saved) /\ WorldSettled(stack, n, f.saved)
    BY <1>1, AlikeLedger
  <1>3. /\ WorldKept(Append(stack, f), n + 1, world')
        /\ WorldSettled(Append(stack, f), n + 1, world')
    BY <1>2, PlainLedger DEF TypeOK
  <1>4. LedgerOn(Append(stack, f), world', ret')
    BY <1>2, <1>3, PushLedger DEF TypeOK, Ledger, Top
  <1> QED BY <1>4 DEF Ledger

(* A transaction begins with nothing gained and nothing spent.             *)
LEMMA BeginLedger == TypeOK /\ Ledger /\ BeginTransaction => Ledger'
  <1> SUFFICES ASSUME TypeOK, Ledger, BeginTransaction PROVE Ledger'
    OBVIOUS
  <1> DEFINE f == ExternalFrame(world)
             t == <<f>>
  <1>1. /\ world \in World /\ \A w \in Wallets : ~world.ctx[w].active
        /\ stack' = t /\ world' = world
    BY DEF BeginTransaction, TypeOK, Ledger, LedgerOn
  <1>2. /\ t # <<>> /\ Len(t) = 1 /\ t[1].kind = "external" /\ t[1].saved = world
    BY DEF ExternalFrame
  <1>3. \A w : Gained(world, world, w) = {}
    BY DEF Gained
  <1>4. Since(world, world)
    BY <1>3, FS_EmptySet DEF Since
  <1>5. \A w \in Wallets : Balanced(world, world, w, 0, 0)
    <2>1. \A w \in Wallets : world.delivered[w] \in Nat /\ Spent(world, w) \in Int
      BY <1>1 DEF World, Spent
    <2>2. Units({}) = 0 /\ Ether({}) = 0
      BY FS_EmptySet, AmountsAdd
    <2> QED BY <1>3, <2>1, <2>2 DEF Balanced
  <1> HIDE DEF t
  <1>6. \A n \in {0, 1} : WorldKept(t, n, world) /\ WorldSettled(t, n, world)
    <2>1. \A i \in 1..0 : FALSE
      OBVIOUS
    <2>2. \A i \in 1..1 : i = 1
      OBVIOUS
    <2> QED BY <1>1, <1>2, <1>4, <1>5, <2>1, <2>2 DEF WorldKept, WorldSettled
  <1>7. \A j \in 1..2 : WorldAt(t, world, j) = world /\ j - 1 \in {0, 1}
    <2>1. \A j \in 1..2 : j = 1 \/ j = 2
      OBVIOUS
    <2> QED BY <1>2, <2>1 DEF WorldAt
  <1>8. Nested(t)
    BY <1>2 DEF Nested
  <1>9. \A j \in 1..Len(t) : j \in 1..2
    BY <1>2
  <1>10. LedgerOn(t, world, ret')
    BY <1>2, <1>6, <1>7, <1>8, <1>9 DEF LedgerOn, Returning
  <1> QED BY <1>1, <1>10 DEF Ledger
-----------------------------------------------------------------------------
(* Ether that reaches a wallet with no open mint is a donation.            *)
LEMMA SendLedger ==
  ASSUME TypeOK, DeliveryInv, Ledger, NEW w \in Wallets, NEW amount \in 1..MaxDonation,
         SendEther(w, amount)
  PROVE  Ledger'
  <1> DEFINE n == Len(stack)
             base == stack[1].saved
  <1>1. /\ world \in World /\ amount \in Nat
        /\ stack # <<>> /\ Top.kind = "external" /\ stack' = stack /\ ret' = ret
    BY ConstantsAssumption DEF TypeOK, SendEther, Running
  <1>2. n \in Nat \ {0} /\ WorldKept(stack, n, world) /\ WorldSettled(stack, n, world)
    BY <1>1, LedgerTop DEF Returning, Top
  <1>3. /\ world'.runs = world.runs /\ world'.used = world.used
        /\ world'.delivered = world.delivered /\ world'.ctx = world.ctx
        /\ \A u \in Wallets : u # w => /\ world'.ether[u] = world.ether[u]
                                       /\ world'.donated[u] = world.donated[u]
        /\ world'.ether[w] = world.ether[w] + amount
        /\ world.ctx[w].active => world'.donated[w] = world.donated[w]
        /\ ~world.ctx[w].active => world'.donated[w] = world.donated[w] + amount
        /\ world.ether[w] \in Int /\ world.donated[w] \in Nat
    BY <1>1 DEF SendEther, World
  <1>4. WorldKept(stack, n, world')
    <2>1. Since(base, world')
      BY <1>2, <1>3, AlikeGains DEF WorldKept, Since
    <2>2. ASSUME NEW i \in 1..n, stack[i].kind = "mint" PROVE SameAccount(stack[i], world')
      <3>1. SameAccount(stack[i], world) /\ stack[i].wallet \in Wallets
            /\ world.ctx[stack[i].wallet].active
        BY <1>2, <2>2, MintWallets DEF WorldKept
      <3> QED BY <1>3, <3>1 DEF SameAccount
    <2> QED BY <1>2, <1>3, <2>1, <2>2 DEF WorldKept
  <1>5. WorldSettled(stack, n, world')
    <2> SUFFICES ASSUME NEW u \in Wallets, ~Open(stack, n, u)
                 PROVE  Balanced(base, world', u, 0, 0)
      BY DEF WorldSettled
    <2>1. Balanced(base, world, u, 0, 0) /\ ~world.ctx[u].active
      BY <1>2 DEF WorldSettled, WorldKept
    <2>2. Spent(world', u) = Spent(world, u)
      <3>1. CASE u = w
        BY <1>1, <1>3, <2>1, <3>1 DEF Spent
      <3>2. CASE u # w
        BY <1>3, <3>2 DEF Spent
      <3> QED BY <3>1, <3>2
    <2>3. Gained(base, world', u) = Gained(base, world, u)
      BY <1>3, AlikeGains
    <2> QED BY <1>3, <2>1, <2>2, <2>3 DEF Balanced
  <1>6. LedgerOn(stack, world', ret)
    BY <1>1, <1>4, <1>5, KeepLedger DEF TypeOK, Ledger, Returning, Top
  <1> QED BY <1>1, <1>6 DEF Ledger

(* A mint that returns leaves its batch owing the count of its entry.      *)
LEMMA FinishLedger ==
  ASSUME TypeOK, DeliveryInv, Ledger, FinishMint
  PROVE  Ledger'
  <1> DEFINE n == Len(stack)
             base == stack[1].saved
             w == Top.wallet
             g == stack[n - 1]
  <1>1. /\ world \in World /\ stack # <<>> /\ Top.kind = "mint" /\ Top = stack[n]
        /\ stack' = Below /\ ret' = "ok" /\ MintResultMatches(Top)
        /\ world' = ClearMintContext(world, w)
    BY DEF TypeOK, FinishMint, Running, Top
  <1>2. /\ n \in Nat \ {0} /\ Nested(stack)
        /\ WorldKept(stack, n, world) /\ WorldSettled(stack, n, world)
        /\ WorldSettled(stack, n - 1, Top.saved)
    BY <1>1, LedgerTop DEF Returning
  <1>3. w \in Wallets /\ Top.op \in Ops /\ Top.saved \in World
    BY <1>1, TopFrame, FrameKinds
  <1>4. /\ n > 1 /\ g.kind = "batch" /\ EntryDigest(g) \in Signed
        /\ Top.op = Entry(g) /\ w = EntryWallet(g)
    <2>1. n # 1
      BY <1>1, <1>2 DEF Nested
    <2>2. n > 1 /\ n \in 2..Len(stack)
      <3>1. \A m \in Nat \ {0} : m # 1 => m > 1 /\ m \in 2..m
        OBVIOUS
      <3> QED BY <1>2, <2>1, <3>1
    <2>3. CalledBy(stack[n], stack[n - 1])
      BY <1>2, <2>2 DEF Nested
    <2> QED BY <1>1, <2>2, <2>3 DEF CalledBy
  <1>5. \A i \in 1..(n - 1) : stack[i].kind = "mint" => stack[i].wallet # w
    <2>1. \A i \in 1..(n - 1) : i \in 1..n /\ n \in 1..n /\ i < n
      BY <1>2
    <2> QED BY <1>1, <2>1 DEF DeliveryInv, DeliveryInvOn, DistinctMints
  <1>6. /\ ~Open(stack, n - 1, w)
        /\ \A u : u # w /\ Open(stack, n, u) => Open(stack, n - 1, u)
    <2>1. \A i \in 1..n : i \in 1..(n - 1) \/ i = n
      BY <1>2
    <2> QED BY <1>1, <1>5, <2>1 DEF Open
  <1>7. /\ world'.runs = world.runs /\ world'.used = world.used
        /\ world'.delivered = world.delivered /\ world'.ether = world.ether
        /\ world'.donated = world.donated
        /\ ~world'.ctx[w].active
        /\ \A u \in Wallets : world'.ctx[u].active => world.ctx[u].active
    BY <1>1, <1>3 DEF ClearMintContext, ClearContext, World
  <1>8. WorldKept(stack, n - 1, world')
    <2>1. WorldKept(stack, n, world')
      BY <1>2, <1>7, AlikeLedger DEF Alike
    <2>2. \A i \in 1..(n - 1) : i \in 1..n
      BY <1>2
    <2> QED BY <1>6, <1>7, <2>1, <2>2 DEF WorldKept
  <1>9. Balanced(base, world', w, UnitsOf[Top.op], ValueOf[Top.op])
    <2>1. SameAccount(Top, world) /\ n \in 1..n
      BY <1>1, <1>2 DEF WorldKept
    <2>2. Balanced(base, Top.saved, w, 0, 0)
      BY <1>2, <1>3, <1>6 DEF WorldSettled
    <2>3. Gained(base, world', w) = Gained(base, Top.saved, w)
      BY <1>7, <2>1 DEF SameAccount, AuthorizedBy, Gained
    <2>4. DeliveredIn(Top, world)
      <3>1. WorldFit(stack, n, world)
        BY <1>1, TopDelivery DEF TypeOK, DeliveryInv
      <3> QED BY <1>1, <2>1, <3>1 DEF WorldFit
    <2>5. /\ world.delivered[w] \in Nat /\ Top.saved.delivered[w] \in Nat
          /\ world.ether[w] \in Int /\ Top.saved.ether[w] \in Int
          /\ world.donated[w] \in Nat /\ Top.saved.donated[w] \in Nat
          /\ base.delivered[w] \in Nat /\ Spent(base, w) \in Int
          /\ UnitsOf[Top.op] \in Nat /\ ValueOf[Top.op] \in Nat
      <3>1. base \in World
        <4>1. 1 \in 1..n
          BY <1>2
        <4> QED BY <4>1, ElementOfSeq, FrameKinds DEF TypeOK
      <3>2. ASSUME NEW v \in World
            PROVE  v.delivered[w] \in Nat /\ v.ether[w] \in Int /\ v.donated[w] \in Nat
        BY <1>3 DEF World
      <3>3. Spent(base, w) \in Int
        BY <3>1, <3>2 DEF Spent
      <3> QED BY <1>1, <1>3, <3>1, <3>2, <3>3, ConstantsAssumption
    <2>6. Since(base, world)
      BY <1>2 DEF WorldKept
    <2>7. /\ Units(Gained(base, world', w)) \in Nat
          /\ Ether(Gained(base, world', w)) \in Nat
      <3>1. Gained(base, world', w) = Gained(base, world, w)
        BY <1>7, AlikeGains
      <3>2. Gained(base, world, w) \in SUBSET Signed
        BY DEF Gained
      <3> QED BY <1>3, <2>6, <3>1, <3>2, AmountsAdd DEF Since
    <2>8. /\ world.delivered[w] = Top.saved.delivered[w] + UnitsOf[Top.op]
          /\ world.ether[w] = Top.saved.ether[w] - ValueOf[Top.op]
          /\ world.donated[w] = Top.saved.donated[w]
      BY <1>1, <2>1, <2>4, <2>5 DEF MintResultMatches, DeliveredIn, SameAccount
    <2>9. world'.delivered[w] = base.delivered[w] + Units(Gained(base, world', w))
                                  + UnitsOf[Top.op]
      <3> DEFINE G == Units(Gained(base, world', w))
      <3>1. G = Units(Gained(base, Top.saved, w))
        BY <2>3
      <3> HIDE DEF G
      <3>2. Top.saved.delivered[w] = base.delivered[w] + G + 0
        BY <2>2, <3>1 DEF Balanced
      <3>3. G \in Nat
        BY <2>7 DEF G
      <3>4. world'.delivered[w] = base.delivered[w] + G + UnitsOf[Top.op]
        BY <1>7, <2>5, <2>8, <3>2, <3>3
      <3> QED BY <3>4 DEF G
    <2>10. Spent(world', w) = Spent(base, w) + Ether(Gained(base, world', w)) + ValueOf[Top.op]
      <3> DEFINE G == Ether(Gained(base, world', w))
                 b == Spent(base, w)
      <3>1. G = Ether(Gained(base, Top.saved, w)) /\ G \in Nat /\ b \in Int
        BY <2>3, <2>5, <2>7
      <3>2. Spent(Top.saved, w) = b + G + 0
        BY <2>2, <3>1 DEF Balanced
      <3> HIDE DEF G, b
      <3>3. Spent(world', w) = Top.saved.donated[w] - (Top.saved.ether[w] - ValueOf[Top.op])
        BY <1>7, <2>8 DEF Spent
      <3>4. Spent(Top.saved, w) = Top.saved.donated[w] - Top.saved.ether[w]
        BY DEF Spent
      <3>5. Spent(world', w) = b + G + ValueOf[Top.op]
        BY <2>5, <3>1, <3>2, <3>3, <3>4
      <3> QED BY <3>5 DEF G, b
    <2> QED BY <2>9, <2>10 DEF Balanced
  <1>10. \A u \in Wallets \ {w} : Open(stack, n - 1, u) \/ Balanced(base, world', u, 0, 0)
    <2>1. WorldSettled(stack, n, world')
      BY <1>2, <1>7, AlikeLedger DEF Alike
    <2> QED BY <1>6, <2>1 DEF WorldSettled
  <1>11. WorldOwes(stack, n - 1, world')
    BY <1>4, <1>6, <1>9, <1>10 DEF WorldOwes
  <1>12. LedgerOn(Below, world', ret')
    BY <1>1, <1>4, <1>8, <1>11, PopLedger DEF TypeOK, Ledger, Below
  <1> QED BY <1>1, <1>12 DEF Ledger

(* Its event settles the account.                                          *)
LEMMA EmitLedger ==
  ASSUME TypeOK, ReplayInv, Ledger, EmitWalletExecution
  PROVE  Ledger'
  <1> DEFINE n == Len(stack)
             base == stack[1].saved
             d == EntryDigest(Top)
             w == EntryWallet(Top)
  <1>1. /\ world \in World /\ stack # <<>> /\ Top.kind = "batch" /\ Top = stack[n]
        /\ Running("batch") /\ NextEntry /\ ret' = "none" /\ ret \in {"ok", "fail"}
    BY DEF TypeOK, EmitWalletExecution, Running, Top
  <1>2. /\ n \in Nat \ {0} /\ WorldKept(stack, n, world)
        /\ WorldKept(stack, n - 1, Top.saved)
        /\ IF ret = "ok" THEN WorldOwes(stack, n, world) ELSE WorldSettled(stack, n, world)
    BY <1>1, LedgerTop DEF Returning
  <1>3. CASE ret # "ok"
    <2>1. world' = world
      BY <1>3 DEF EmitWalletExecution
    <2> QED BY <1>1, <1>2, <1>3, <2>1, LedgerAdvanced
  <1>4. CASE ret = "ok"
    <2>1. /\ d \in Signed /\ ~Open(stack, n, w)
          /\ Balanced(base, world, w, UnitsOf[Entry(Top)], ValueOf[Entry(Top)])
          /\ \A u \in Wallets \ {w} : Open(stack, n, u) \/ Balanced(base, world, u, 0, 0)
      BY <1>1, <1>2, <1>4 DEF WorldOwes
    <2>2. /\ d.op = Entry(Top) /\ WalletOf[d.op] = w /\ w \in Wallets
          /\ KeyOf(d) = Key(Top) /\ d.index = Top.next - 1
      <3>1. d.op = Entry(Top) /\ KeyOf(d) = Key(Top) /\ d.index = Top.next - 1
        BY DEF EntryDigest, KeyOf, Key
      <3>2. d.op \in Ops
        BY <2>1, ConstantsAssumption DEF Authorization
      <3> QED BY <3>1, <3>2, ConstantsAssumption DEF EntryWallet
    <2> HIDE DEF d, w
    <2>3. ~(world.runs[d] > 0)
      <3>1. WorldAt(stack, world, n + 1) = world /\ n + 1 \in 1..(n + 1) /\ n \in 1..(n + 1 - 1)
        BY <1>2 DEF WorldAt
      <3>2. OpenIn(Top, world)
        BY <1>1, <3>1 DEF ReplayInv, ReplayInvOn
      <3>3. Top.next \in Nat
        BY <1>1, TopBatch
      <3>4. world.runs[d] > 0 => d.index < Top.next - 1
        BY <2>1, <2>2, <3>2 DEF OpenIn
      <3>5. ~(Top.next - 1 < Top.next - 1)
        BY <3>3
      <3> QED BY <2>2, <3>4, <3>5
    <2>4. KeyOf(d) \notin base.used /\ ~(base.runs[d] > 0)
      <3>1. Key(Top) \notin Top.saved.used
        <4>1. n \in 1..n
          BY <1>2
        <4> QED BY <1>1, <4>1 DEF ReplayInv, ReplayInvOn
      <3>2. base.used \subseteq Top.saved.used /\ (base.runs[d] > 0 => world.runs[d] > 0)
        BY <1>2, <2>1 DEF WorldKept, Since
      <3> QED BY <2>2, <2>3, <3>1, <3>2
    <2>5. /\ world'.used = world.used /\ world'.ctx = world.ctx
          /\ world'.delivered = world.delivered /\ world'.ether = world.ether
          /\ world'.donated = world.donated
          /\ world'.runs[d] > 0
          /\ \A a \in Signed : a # d => world'.runs[a] = world.runs[a]
      <3>1. world' = [world EXCEPT !.runs[d] = @ + 1]
        BY <1>4 DEF EmitWalletExecution, d
      <3>2. world.runs \in [Signed -> Nat] /\ world.runs[d] + 1 > 0
        BY <1>1, <2>1 DEF World
      <3> QED BY <1>1, <2>1, <3>1, <3>2 DEF World
    <2>6. /\ Gained(base, world', w) = Gained(base, world, w) \cup {d}
          /\ d \notin Gained(base, world, w)
          /\ \A u : u # w => Gained(base, world', u) = Gained(base, world, u)
      BY <2>1, <2>2, <2>3, <2>4, <2>5 DEF Gained
    <2>7. WorldKept(stack, n, world')
      <3>1. Since(base, world)
        BY <1>2 DEF WorldKept
      <3>2. \A u \in Wallets : IsFiniteSet(Gained(base, world', u))
        <4>1. \A u \in Wallets : IsFiniteSet(Gained(base, world, u))
          BY <3>1 DEF Since
        <4>2. IsFiniteSet(Gained(base, world, w) \cup {d})
          BY <2>2, <4>1, FS_AddElement
        <4> QED BY <2>6, <4>1, <4>2
      <3>3. Since(base, world')
        BY <2>4, <2>5, <3>1, <3>2 DEF Since
      <3>4. ASSUME NEW i \in 1..n, stack[i].kind = "mint" PROVE SameAccount(stack[i], world')
        <4>1. SameAccount(stack[i], world) /\ stack[i].wallet # w
          BY <1>2, <2>1, <3>4 DEF WorldKept, Open
        <4>2. \A a \in AuthorizedBy(stack[i].wallet) : a \in Signed /\ a # d
          BY <2>2, <4>1 DEF AuthorizedBy
        <4> QED BY <2>5, <4>1, <4>2 DEF SameAccount
      <3> QED BY <1>2, <2>5, <3>3, <3>4 DEF WorldKept
    <2>8. WorldSettled(stack, n, world')
      <3> SUFFICES ASSUME NEW u \in Wallets, ~Open(stack, n, u)
                   PROVE  Balanced(base, world', u, 0, 0)
        BY DEF WorldSettled
      <3>1. CASE u # w
        <4>1. Balanced(base, world, u, 0, 0) /\ Gained(base, world', u) = Gained(base, world, u)
          BY <2>1, <2>6, <3>1
        <4> QED BY <2>5, <4>1 DEF Balanced, Spent
      <3>2. CASE u = w
        <4> DEFINE G == Gained(base, world, w)
        <4>1. G \in SUBSET Signed /\ IsFiniteSet(G)
          BY <1>2, <2>2 DEF WorldKept, Since, Gained
        <4>2. /\ Units(Gained(base, world', w)) = Units(G) + UnitsOf[d.op]
              /\ Ether(Gained(base, world', w)) = Ether(G) + ValueOf[d.op]
              /\ Units(G) \in Nat /\ Ether(G) \in Nat
          BY <2>1, <2>6, <4>1, AmountsAdd
        <4>3. /\ world.delivered[w] = base.delivered[w] + Units(G) + UnitsOf[d.op]
              /\ Spent(world, w) = Spent(base, w) + Ether(G) + ValueOf[d.op]
          BY <2>1, <2>2 DEF Balanced
        <4> HIDE DEF G
        <4>4. /\ base.delivered[w] \in Nat /\ Spent(base, w) \in Int
              /\ UnitsOf[d.op] \in Nat /\ ValueOf[d.op] \in Nat
          <5>1. 1 \in 1..n
            BY <1>2
          <5>2. base \in World
            BY <5>1, ElementOfSeq, FrameKinds DEF TypeOK
          <5>3. d.op \in Ops
            BY <2>1, ConstantsAssumption DEF Authorization
          <5>4. base.delivered[w] \in Nat /\ base.ether[w] \in Int /\ base.donated[w] \in Nat
            BY <2>2, <5>2 DEF World
          <5>5. Spent(base, w) \in Int
            BY <5>4 DEF Spent
          <5> QED BY <5>3, <5>4, <5>5, ConstantsAssumption
        <4>5. Spent(world', w) = Spent(world, w) /\ world'.delivered[w] = world.delivered[w]
          BY <2>5 DEF Spent
        <4>6. \A x \in Int, g \in Nat, y \in Nat : x + g + y = x + (g + y) + 0
          OBVIOUS
        <4>7. world'.delivered[w] = base.delivered[w] + Units(Gained(base, world', w)) + 0
          <5> DEFINE x == base.delivered[w]
                     g == Units(G)
                     y == UnitsOf[d.op]
          <5>1. x \in Int /\ g \in Nat /\ y \in Nat
            BY <4>2, <4>4
          <5>2. world'.delivered[w] = x + g + y /\ Units(Gained(base, world', w)) = g + y
            BY <4>2, <4>3, <4>5
          <5> HIDE DEF x, g, y
          <5>3. world'.delivered[w] = x + (g + y) + 0
            BY <4>6, <5>1, <5>2
          <5> QED BY <5>2, <5>3 DEF x
        <4>8. Spent(world', w) = Spent(base, w) + Ether(Gained(base, world', w)) + 0
          <5> DEFINE x == Spent(base, w)
                     g == Ether(G)
                     y == ValueOf[d.op]
          <5>1. x \in Int /\ g \in Nat /\ y \in Nat
            BY <4>2, <4>4
          <5>2. Spent(world', w) = x + g + y /\ Ether(Gained(base, world', w)) = g + y
            BY <4>2, <4>3, <4>5
          <5> HIDE DEF x, g, y
          <5>3. Spent(world', w) = x + (g + y) + 0
            BY <4>6, <5>1, <5>2
          <5> QED BY <5>2, <5>3 DEF x
        <4> QED BY <3>2, <4>7, <4>8 DEF Balanced
      <3> QED BY <3>1, <3>2
    <2> QED BY <1>1, <2>7, <2>8, LedgerAdvanced
  <1> QED BY <1>3, <1>4
-----------------------------------------------------------------------------
(* A mint opens: from here on its wallet's ether is its own affair.        *)
LEMMA MintOpens ==
  ASSUME NEW s \in Seq(Frame), s # <<>>, NEW m \in Frame, m.kind = "mint",
         WorldKept(s, Len(s), m.saved), WorldSettled(s, Len(s), m.saved),
         NEW v, v.runs = m.saved.runs, v.used = m.saved.used,
         v.delivered = m.saved.delivered, v.donated = m.saved.donated,
         \A u \in Wallets : u # m.wallet =>
           /\ v.ether[u] = m.saved.ether[u]
           /\ v.ctx[u].active => m.saved.ctx[u].active
  PROVE  WorldKept(Append(s, m), Len(s) + 1, v) /\ WorldSettled(Append(s, m), Len(s) + 1, v)
  <1> DEFINE n == Len(s)
             t == Append(s, m)
             base == s[1].saved
  <1>1. n \in Nat \ {0} /\ (\A i \in 1..n : t[i] = s[i]) /\ t[n + 1] = m
    BY PushFrame, EmptySeq
  <1>2. WorldKept(s, n, m.saved) /\ WorldSettled(s, n, m.saved)
    OBVIOUS
  <1> HIDE DEF t, n
  <1>3. /\ t[1] = s[1] /\ n + 1 \in 1..(n + 1) /\ \A i \in 1..n : i \in 1..(n + 1)
        /\ \A i \in 1..(n + 1) : i \in 1..n \/ i = n + 1
    BY <1>1
  <1>4. Open(t, n + 1, m.wallet) /\ \A u : Open(s, n, u) => Open(t, n + 1, u)
    BY <1>1, <1>3 DEF Open
  <1>5. Since(base, v)
    BY <1>2, AlikeGains DEF WorldKept, Since
  <1>6. ASSUME NEW i \in 1..n, s[i].kind = "mint" PROVE SameAccount(s[i], v)
    BY <1>2, <1>6 DEF WorldKept, SameAccount
  <1>7. SameAccount(m, v)
    BY DEF SameAccount
  <1>8. \A u \in Wallets : v.ctx[u].active => Open(t, n + 1, u)
    BY <1>2, <1>4 DEF WorldKept
  <1>9. WorldKept(t, n + 1, v)
    BY <1>1, <1>3, <1>5, <1>6, <1>7, <1>8 DEF WorldKept
  <1>10. WorldSettled(t, n + 1, v)
    <2> SUFFICES ASSUME NEW u \in Wallets, ~Open(t, n + 1, u)
                 PROVE  Balanced(base, v, u, 0, 0)
      BY <1>3 DEF WorldSettled
    <2>1. u # m.wallet /\ Balanced(base, m.saved, u, 0, 0)
      BY <1>2, <1>4 DEF WorldSettled
    <2>2. Gained(base, v, u) = Gained(base, m.saved, u)
      BY AlikeGains
    <2> QED BY <2>1, <2>2 DEF Balanced, Spent
  <1> QED BY <1>9, <1>10 DEF t, n

(* The wallet call.                                                        *)
LEMMA CallLedger ==
  ASSUME TypeOK, Ledger, CallWallet
  PROVE  Ledger'
  <1> DEFINE op == Entry(Top)
             w  == EntryWallet(Top)
             marked == MarkSeen
             opened == OpenContext(marked, w, op)
             paid   == PayMintValue(opened, w, op)
             m == MintFrame(marked, w, op)
             x == ExternalFrame(opened)
             n == Len(stack)
             t == Append(stack, m)
  <1>1. world \in World /\ stack \in Seq(Frame)
    BY DEF TypeOK
  <1>2. op \in Ops /\ w \in Wallets /\ marked \in World
    BY <1>1, TopBatch, WorldUpdates DEF CallWallet, AtEntry, MarkSeen
  <1>3. opened \in World
    BY <1>2, WorldUpdates
  <1>4. m \in Frame /\ x \in Frame
    BY <1>2, <1>3, NewFrames
  <1>5. /\ stack # <<>> /\ Top = stack[n] /\ Top.kind = "batch" /\ ret = "none"
        /\ EntryDigest(Top) \in Signed
        /\ world' = paid /\ stack' = Append(t, x) /\ ret' = "none"
    BY DEF CallWallet, MintAllowed, AtEntry, Running, Top
  <1>6. Alike(marked, world)
    BY <1>1 DEF MarkSeen, World, Alike
  <1>7. /\ m.kind = "mint" /\ m.saved = marked /\ m.wallet = w /\ m.op = op
        /\ x.kind = "external" /\ x.saved = opened
    BY DEF MintFrame, ExternalFrame
  <1>8. CalledBy(m, Top)
    BY <1>5, <1>7 DEF CalledBy
  <1>9. /\ opened.runs = marked.runs /\ opened.used = marked.used
        /\ opened.delivered = marked.delivered /\ opened.donated = marked.donated
        /\ opened.ether = marked.ether
        /\ \A u \in Wallets : u # w => opened.ctx[u] = marked.ctx[u]
    BY <1>2 DEF OpenContext, World
  <1>10. /\ paid.runs = opened.runs /\ paid.used = opened.used
         /\ paid.delivered = opened.delivered /\ paid.donated = opened.donated
         /\ paid.ctx = opened.ctx
         /\ \A u \in Wallets : u # w => paid.ether[u] = opened.ether[u]
    BY <1>2, <1>3 DEF PayMintValue, World
  <1> HIDE DEF op, w, marked, opened, paid, m, x
  <1>11. WorldKept(stack, n, world) /\ WorldSettled(stack, n, world)
    BY <1>5, LedgerTop DEF Returning
  <1>12. WorldKept(stack, n, marked) /\ WorldSettled(stack, n, marked)
    BY <1>6, <1>11, AlikeLedger
  <1>13. ASSUME NEW v \in {opened, paid}
         PROVE  WorldKept(t, n + 1, v) /\ WorldSettled(t, n + 1, v)
    <2>1. /\ v.runs = m.saved.runs /\ v.used = m.saved.used
          /\ v.delivered = m.saved.delivered /\ v.donated = m.saved.donated
          /\ \A u \in Wallets : u # m.wallet =>
               /\ v.ether[u] = m.saved.ether[u]
               /\ v.ctx[u].active => m.saved.ctx[u].active
      BY <1>7, <1>9, <1>10
    <2> QED BY <1>1, <1>4, <1>5, <1>7, <1>12, <2>1, MintOpens
  <1>14. LedgerOn(t, opened, "none")
    BY <1>1, <1>4, <1>5, <1>7, <1>8, <1>12, <1>13, PushLedger DEF Ledger
  <1>15. /\ t \in Seq(Frame) /\ t # <<>> /\ Len(t) = n + 1 /\ t[Len(t)] = m
    BY <1>1, <1>4, PushFrame
  <1> HIDE DEF t, n
  <1>16. CalledBy(x, t[Len(t)])
    BY <1>7, <1>15 DEF CalledBy
  <1>17. /\ WorldKept(Append(t, x), Len(t) + 1, paid)
         /\ WorldSettled(Append(t, x), Len(t) + 1, paid)
    BY <1>4, <1>7, <1>13, <1>15, PlainLedger
  <1>18. LedgerOn(Append(t, x), paid, "none")
    BY <1>4, <1>7, <1>13, <1>14, <1>15, <1>16, <1>17, PushLedger
  <1> QED BY <1>5, <1>18 DEF Ledger

(* A receiver hands over units of a wallet whose mint is open.             *)
LEMMA ForwardLedger ==
  ASSUME TypeOK, Ledger, NEW w \in Wallets, NEW isNft \in BOOLEAN,
         NEW isMint \in BOOLEAN, NEW units \in 1..MaxSupply,
         ForwardReceipt(w, isNft, isMint, units)
  PROVE  Ledger'
  <1> DEFINE credited == Credit(world, w, isNft, units)
             counted == [credited EXCEPT !.ctx[w].forwarded = @ + units]
             forwarded == Forward(counted, w, isNft, units)
             c == CallbackFrame(world, w)
             x == ExternalFrame(counted)
             n == Len(stack)
             t == Append(stack, c)
             base == stack[1].saved
  <1>1. world \in World /\ stack \in Seq(Frame)
    BY DEF TypeOK
  <1>2. units \in Nat /\ isNft
    BY ConstantsAssumption DEF ForwardReceipt, CallbackAccepted
  <1>3. credited \in World /\ Alike(credited, world)
    <2>1. credited \in World
      BY <1>1, <1>2, TokenUpdates
    <2>2. Alike(credited, world)
      BY <1>1 DEF Credit, World, Alike
    <2> QED BY <2>1, <2>2
  <1>4. /\ world' = forwarded /\ ret' = "none" /\ stack' = Append(t, x)
        /\ stack # <<>> /\ Top = stack[n] /\ Top.kind = "external" /\ world.ctx[w].active
    BY DEF ForwardReceipt, Running, Top
  <1> HIDE DEF credited
  <1>5. counted \in World
    BY <1>2, <1>3, TokenUpdates
  <1>6. Alike(counted, credited)
    BY <1>2, <1>3 DEF World, Alike
  <1>7. Alike(counted, world)
    BY <1>3, <1>6 DEF Alike
  <1> HIDE DEF counted
  <1>8. /\ forwarded.runs = counted.runs /\ forwarded.used = counted.used
        /\ forwarded.donated = counted.donated /\ forwarded.ether = counted.ether
        /\ forwarded.ctx = counted.ctx
        /\ \A u \in Wallets : u # w => forwarded.delivered[u] = counted.delivered[u]
    BY <1>2, <1>5 DEF Forward, World
  <1> HIDE DEF forwarded
  <1>9. c \in Frame /\ x \in Frame
    BY <1>1, <1>5, NewFrames
  <1>10. /\ c.kind = "callback" /\ c.saved = world
         /\ x.kind = "external" /\ x.saved = counted
    BY DEF CallbackFrame, ExternalFrame
  <1> HIDE DEF c, x
  <1>11. WorldKept(stack, n, world) /\ WorldSettled(stack, n, world)
    BY <1>4, LedgerTop DEF Returning
  <1>12. WorldKept(stack, n, counted) /\ WorldSettled(stack, n, counted)
    BY <1>7, <1>11, AlikeLedger
  <1>13. Open(stack, n, w)
    BY <1>4, <1>11 DEF WorldKept
  <1>14. WorldKept(stack, n, forwarded)
    <2>1. Since(base, forwarded)
      BY <1>8, <1>12, AlikeGains DEF WorldKept, Since
    <2> QED BY <1>8, <1>12, <2>1 DEF WorldKept, SameAccount
  <1>15. WorldSettled(stack, n, forwarded)
    <2> SUFFICES ASSUME NEW u \in Wallets, ~Open(stack, n, u)
                 PROVE  Balanced(base, forwarded, u, 0, 0)
      BY DEF WorldSettled
    <2>1. u # w /\ Balanced(base, counted, u, 0, 0)
      BY <1>12, <1>13 DEF WorldSettled
    <2>2. Gained(base, forwarded, u) = Gained(base, counted, u)
      BY <1>8, AlikeGains
    <2> QED BY <1>8, <2>1, <2>2 DEF Balanced, Spent
  <1>16. CalledBy(c, Top)
    BY <1>4, <1>10 DEF CalledBy
  <1>17. \A v \in {counted, forwarded} : WorldKept(t, n + 1, v) /\ WorldSettled(t, n + 1, v)
    BY <1>1, <1>4, <1>9, <1>10, <1>12, <1>14, <1>15, PlainLedger
  <1>18. LedgerOn(t, counted, "none")
    BY <1>1, <1>4, <1>9, <1>10, <1>11, <1>16, <1>17, PushLedger DEF Ledger
  <1>19. /\ t \in Seq(Frame) /\ t # <<>> /\ Len(t) = n + 1 /\ t[Len(t)] = c
    BY <1>1, <1>9, PushFrame
  <1> HIDE DEF t, n
  <1>20. CalledBy(x, t[Len(t)])
    BY <1>10, <1>19 DEF CalledBy
  <1>21. /\ WorldKept(Append(t, x), Len(t) + 1, forwarded)
         /\ WorldSettled(Append(t, x), Len(t) + 1, forwarded)
    BY <1>9, <1>10, <1>17, <1>19, PlainLedger
  <1>22. LedgerOn(Append(t, x), forwarded, "none")
    BY <1>9, <1>10, <1>17, <1>18, <1>19, <1>20, <1>21, PushLedger
  <1> QED BY <1>4, <1>22 DEF Ledger
-----------------------------------------------------------------------------
LEMMA AdvancedAlike ==
  ASSUME TypeOK, Ledger, AtEntry, NextEntry, ret' = "none", Alike(world', world)
  PROVE  Ledger'
  <1>1. Running("batch") /\ stack # <<>> /\ ~Returning(stack, ret)
    BY DEF AtEntry, Running, Returning
  <1>2. WorldKept(stack, Len(stack), world) /\ WorldSettled(stack, Len(stack), world)
    BY <1>1, LedgerTop
  <1>3. WorldKept(stack, Len(stack), world') /\ WorldSettled(stack, Len(stack), world')
    BY <1>2, AlikeLedger
  <1> QED BY <1>1, <1>3, LedgerAdvanced

LEMMA ContractLedger == TypeOK /\ ReplayInv /\ DeliveryInv /\ Ledger /\ Contract => Ledger'
  <1> SUFFICES ASSUME TypeOK, ReplayInv, DeliveryInv, Ledger, Contract PROVE Ledger'
    OBVIOUS
  <1>0. world \in World /\ Alike(world, world)
    BY DEF TypeOK, Alike
  <1>1. ASSUME NEW d \in Dispatchers, NEW t \in Sponsors, NEW b \in BatchIds,
               NEW ops \in Batches, ExecuteBatch(d, t, b, ops)
        PROVE  Ledger'
    <2> DEFINE f == BatchFrame(world, d, t, b, ops)
    <2>1. ops \in Seq(Ops)
      BY SeqDef, ConstantsAssumption DEF Batches
    <2>2. f \in Frame
      BY <1>0, <2>1, NewFrames
    <2>3. f.kind = "batch" /\ f.saved = world
      BY DEF BatchFrame
    <2>4. /\ stack # <<>> /\ stack' = Append(stack, f) /\ Top.kind = "external"
          /\ ret' = "none"
      BY <1>1 DEF ExecuteBatch, Running
    <2>5. Alike(world', world)
      BY <1>0, <1>1 DEF ExecuteBatch, World, Alike
    <2> HIDE DEF f
    <2>6. CalledBy(f, Top)
      BY <2>3, <2>4 DEF CalledBy
    <2> QED BY <1>0, <2>2, <2>3, <2>4, <2>5, <2>6, LedgerPushed
  <1>2. CASE RefuseEntry
    BY <1>0, <1>2, AdvancedAlike DEF RefuseEntry, AtEntry
  <1>3. CASE FailEntry
    <2>1. Alike(world', world)
      BY <1>0, <1>3 DEF FailEntry, MarkSeen, World, Alike
    <2> QED BY <1>3, <2>1, AdvancedAlike DEF FailEntry, AtEntry
  <1>4. CASE CallWallet
    BY <1>4, CallLedger
  <1>5. CASE FinishMint
    BY <1>5, FinishLedger
  <1>6. CASE RevertMint
    BY <1>6, LedgerRestored DEF RevertMint, RevertTop, Running
  <1>7. CASE EmitWalletExecution
    BY <1>7, EmitLedger
  <1>8. CASE FinishBatch
    <2>1. Alike(world', world)
      BY <1>0, <1>8 DEF FinishBatch, World, Alike
    <2> QED BY <1>8, <2>1, LedgerReturned DEF FinishBatch, Running
  <1>9. CASE BatchOutOfGas
    BY <1>9, LedgerRestored DEF BatchOutOfGas, Running
  <1>10. ASSUME NEW w \in Wallets, NEW isNft \in BOOLEAN, NEW isMint \in BOOLEAN,
                NEW units \in 1..MaxSupply, ForwardReceipt(w, isNft, isMint, units)
         PROVE  Ledger'
    BY <1>10, ForwardLedger
  <1>11. CASE FinishCallback
    BY <1>0, <1>11, LedgerReturned DEF FinishCallback, Running
  <1>12. CASE RevertCallback
    BY <1>12, LedgerRestored DEF RevertCallback, Running
  <1> QED BY <1>1, <1>2, <1>3, <1>4, <1>5, <1>6, <1>7, <1>8, <1>9, <1>10, <1>11, <1>12
          DEF Contract

LEMMA EnvironmentLedger == TypeOK /\ DeliveryInv /\ Ledger /\ Environment => Ledger'
  <1> SUFFICES ASSUME TypeOK, DeliveryInv, Ledger, Environment PROVE Ledger'
    OBVIOUS
  <1>0. world \in World /\ Alike(world, world)
    BY DEF TypeOK, Alike
  <1>1. ASSUME NEW w \in Wallets, NEW units \in 1..MaxSupply, KeepReceipt(w, units)
        PROVE  Ledger'
    <2>1. Alike(world', world)
      BY <1>0, <1>1 DEF KeepReceipt, World, Alike
    <2> QED BY <1>1, <2>1, LedgerKept DEF KeepReceipt
  <1>2. ASSUME NEW w \in Wallets, NEW amount \in 1..MaxDonation, SendEther(w, amount)
        PROVE  Ledger'
    BY <1>2, SendLedger
  <1>3. CASE ExternalReturn
    <2>1. stack # <<>> /\ Top.kind = "external" /\ stack' = Below
      BY <1>3 DEF ExternalReturn, Running
    <2>2. Alike(world', world)
      <3>1. Alike(ClearTransient(world), world)
        BY <1>0 DEF ClearTransient, ClearContext, World, Alike
      <3> QED BY <1>0, <1>3, <3>1 DEF ExternalReturn
    <2>3. Len(stack) > 1 => stack[Len(stack) - 1].kind # "batch"
      <3>1. Len(stack) \in Nat \ {0} /\ Nested(stack)
        BY <2>1, LedgerTop
      <3>2. ASSUME Len(stack) > 1 PROVE Len(stack) \in 2..Len(stack)
        BY <3>1, <3>2
      <3> QED BY <2>1, <3>1, <3>2 DEF Nested, CalledBy, Top
    <2> QED BY <2>1, <2>2, <2>3, LedgerReturned
  <1>4. CASE ExternalRevert
    BY <1>4, LedgerRestored DEF ExternalRevert, Running
  <1>5. CASE BeginTransaction
    BY <1>5, BeginLedger
  <1>6. ASSUME NEW w \in Wallets, NEW d \in Dispatchers \cup {NoDelegate}, Delegate(w, d)
        PROVE  Ledger'
    BY <1>0, <1>6, LedgerKept DEF Delegate
  <1>7. CASE Tick
    BY <1>0, <1>7, LedgerKept DEF Tick
  <1> QED BY <1>1, <1>2, <1>3, <1>4, <1>5, <1>6, <1>7 DEF Environment

LEMMA LedgerInvariant == Spec => []Ledger
  <1>1. TypeOK /\ ReplayInv /\ DeliveryInv /\ Ledger /\ [Next]_vars => Ledger'
    <2>1. ASSUME TypeOK, Ledger, UNCHANGED vars PROVE Ledger'
      BY <2>1, LedgerKept DEF vars, Alike
    <2> QED BY <2>1, ContractLedger, EnvironmentLedger DEF Next
  <1> QED BY <1>1, InitLedger, TypeCorrect, ReplayInvariant, DeliveryInvariant, PTL DEF Spec
-----------------------------------------------------------------------------
(* A transaction becomes visible when its last frame returns, not before.  *)
LEMMA CommitsAtTheEnd ==
  ASSUME TypeOK, Ledger, [Next]_vars
  PROVE  \/ Committed' = Committed
         \/ /\ stack # <<>> /\ Len(stack) = 1
            /\ Committed = stack[1].saved /\ Committed' = ClearTransient(world)
  <1> DEFINE n == Len(stack)
  <1>0. n \in Nat /\ stack \in Seq(Frame) /\ (stack # <<>> => n \in Nat \ {0})
    BY LenProperties, EmptySeq DEF TypeOK
  <1>1. ASSUME stack # <<>>, stack' = stack PROVE Committed' = Committed
    BY <1>1 DEF Committed
  <1>2. ASSUME NEW f \in Frame, stack # <<>>, stack' = Append(stack, f)
        PROVE  Committed' = Committed
    <2>1. stack' # <<>> /\ stack'[1] = stack[1]
      BY <1>0, <1>2, PushFrame
    <2> QED BY <1>2, <2>1 DEF Committed
  <1>3. ASSUME NEW f \in Frame, NEW g \in Frame, stack # <<>>,
               stack' = Append(Append(stack, f), g)
        PROVE  Committed' = Committed
    <2>1. /\ Append(stack, f) \in Seq(Frame) /\ Len(Append(stack, f)) = n + 1
          /\ Append(stack, f)[1] = stack[1]
      BY <1>0, <1>3, PushFrame
    <2>2. stack' # <<>> /\ stack'[1] = stack[1]
      BY <1>0, <1>3, <2>1, PushFrame
    <2> QED BY <1>3, <2>2 DEF Committed
  <1>4. ASSUME Running("batch"), NextEntry PROVE Committed' = Committed
    <2>1. stack # <<>> /\ stack[n].kind = "batch"
      BY <1>4 DEF Running, Top
    <2>2. Len(stack') = n /\ (\A i \in 1..(n - 1) : stack'[i] = stack[i])
          /\ stack'[n].saved = stack[n].saved
      BY <1>0, <1>4, <2>1, AdvanceFrame DEF NextEntry
    <2>3. stack' # <<>> /\ (1 \in 1..(n - 1) \/ n = 1)
      BY <1>0, <2>1, <2>2, EmptySeq
    <2> QED BY <2>1, <2>2, <2>3 DEF Committed
  <1>5. ASSUME stack # <<>>, stack' = Below, n # 1 \/ world' = Top.saved
        PROVE  Committed' = Committed
    <2>1. Below \in Seq(Frame) /\ Len(Below) = n - 1 /\ \A i \in 1..(n - 1) : Below[i] = stack[i]
      BY <1>5, TopFrame
    <2>2. CASE n = 1
      <3>1. Below = <<>>
        BY <2>1, <2>2, EmptySeq
      <3> QED BY <1>5, <2>2, <3>1 DEF Committed, Top
    <2>3. CASE n # 1
      <3>1. Below # <<>> /\ Below[1] = stack[1]
        BY <1>0, <1>5, <2>1, <2>3, EmptySeq
      <3> QED BY <1>5, <3>1 DEF Committed
    <2> QED BY <2>2, <2>3
  <1>6. stack # <<>> /\ Top.kind # "external" => n # 1
    BY LedgerTop DEF Nested, Top
  <1>7. CASE UNCHANGED vars
    BY <1>7 DEF vars, Committed
  <1>8. CASE Contract
    <2>1. ASSUME NEW d \in Dispatchers, NEW t \in Sponsors, NEW b \in BatchIds,
                 NEW ops \in Batches, ExecuteBatch(d, t, b, ops)
          PROVE  Committed' = Committed
      <3>1. ops \in Seq(Ops)
        BY SeqDef, ConstantsAssumption DEF Batches
      <3>2. BatchFrame(world, d, t, b, ops) \in Frame
        BY <3>1, NewFrames DEF TypeOK
      <3> QED BY <1>2, <2>1, <3>2 DEF ExecuteBatch, Running
    <2>2. CASE RefuseEntry \/ FailEntry \/ EmitWalletExecution
      BY <1>4, <2>2 DEF RefuseEntry, FailEntry, EmitWalletExecution, AtEntry
    <2>3. CASE CallWallet
      <3> DEFINE opened == OpenContext(MarkSeen, EntryWallet(Top), Entry(Top))
      <3>1. /\ Entry(Top) \in Ops /\ EntryWallet(Top) \in Wallets /\ MarkSeen \in World
        BY <2>3, TopBatch, WorldUpdates DEF CallWallet, AtEntry, MarkSeen, TypeOK
      <3>2. opened \in World
        BY <3>1, WorldUpdates
      <3>3. /\ MintFrame(MarkSeen, EntryWallet(Top), Entry(Top)) \in Frame
            /\ ExternalFrame(opened) \in Frame
        BY <3>1, <3>2, NewFrames
      <3>4. /\ stack # <<>>
            /\ stack' = Append(Append(stack, MintFrame(MarkSeen, EntryWallet(Top), Entry(Top))),
                               ExternalFrame(opened))
        BY <2>3 DEF CallWallet, AtEntry, Running
      <3> QED BY <1>3, <3>3, <3>4
    <2>4. CASE FinishMint \/ FinishBatch \/ FinishCallback
      BY <1>5, <1>6, <2>4 DEF FinishMint, FinishBatch, FinishCallback, Running
    <2>5. CASE RevertMint \/ BatchOutOfGas \/ RevertCallback
      BY <1>5, <2>5 DEF RevertMint, RevertTop, BatchOutOfGas, RevertCallback, Running
    <2>6. ASSUME NEW w \in Wallets, NEW isNft \in BOOLEAN, NEW isMint \in BOOLEAN,
                 NEW units \in 1..MaxSupply, ForwardReceipt(w, isNft, isMint, units)
          PROVE  Committed' = Committed
      <3> DEFINE credited == Credit(world, w, isNft, units)
                 counted == [credited EXCEPT !.ctx[w].forwarded = @ + units]
      <3>1. units \in Nat /\ world \in World
        BY ConstantsAssumption DEF TypeOK
      <3>2. credited \in World
        BY <3>1, TokenUpdates
      <3>3. /\ stack # <<>>
            /\ stack' = Append(Append(stack, CallbackFrame(world, w)), ExternalFrame(counted))
        BY <2>6 DEF ForwardReceipt, Running
      <3> HIDE DEF credited
      <3>4. counted \in World
        BY <3>1, <3>2, TokenUpdates
      <3>5. CallbackFrame(world, w) \in Frame /\ ExternalFrame(counted) \in Frame
        BY <3>1, <3>4, NewFrames
      <3> QED BY <1>3, <3>3, <3>5
    <2> QED BY <1>8, <2>1, <2>2, <2>3, <2>4, <2>5, <2>6 DEF Contract
  <1>9. CASE Environment
    <2>1. ASSUME NEW w \in Wallets, NEW units \in 1..MaxSupply, KeepReceipt(w, units)
          PROVE  Committed' = Committed
      BY <1>1, <2>1 DEF KeepReceipt, Running
    <2>2. ASSUME NEW w \in Wallets, NEW amount \in 1..MaxDonation, SendEther(w, amount)
          PROVE  Committed' = Committed
      BY <1>1, <2>2 DEF SendEther, Running
    <2>3. CASE ExternalReturn
      <3>1. stack # <<>> /\ stack' = Below
        BY <2>3 DEF ExternalReturn, Running
      <3>2. CASE n = 1
        <4>1. Below = <<>>
          BY <3>1, <3>2, TopFrame, EmptySeq
        <4> QED BY <2>3, <3>1, <3>2, <4>1 DEF ExternalReturn, Committed
      <3> QED BY <1>5, <3>1, <3>2
    <2>4. CASE ExternalRevert
      BY <1>5, <2>4 DEF ExternalRevert, Running
    <2>5. CASE BeginTransaction
      <3>1. stack' # <<>> /\ stack'[1].saved = world
        BY <2>5 DEF BeginTransaction, ExternalFrame
      <3> QED BY <2>5, <3>1 DEF BeginTransaction, Committed
    <2>6. ASSUME NEW w \in Wallets, NEW d \in Dispatchers \cup {NoDelegate}, Delegate(w, d)
          PROVE  Committed' = Committed
      BY <2>6 DEF Delegate, Committed
    <2>7. CASE Tick
      BY <2>7 DEF Tick, Committed
    <2> QED BY <1>9, <2>1, <2>2, <2>3, <2>4, <2>5, <2>6, <2>7 DEF Environment
  <1> QED BY <1>7, <1>8, <1>9 DEF Next
-----------------------------------------------------------------------------
(* What a transaction settles, from the world it began in to its last.     *)
LEMMA TransactionSettles ==
  ASSUME NEW base \in World, NEW wld \in World, Sound(wld), UniqueIn(wld), Since(base, wld),
         \A w \in Wallets : Balanced(base, wld, w, 0, 0),
         Committed = base,
         Committed'.used = wld.used, Committed'.runs = wld.runs,
         Committed'.delivered = wld.delivered,
         Committed'.donated = wld.donated, Committed'.ether = wld.ether
  PROVE  [Promise!Next]_(Promise!vars)
  <1> DEFINE batches == wld.used \ base.used
             S == {a \in Signed : wld.runs[a] > 0 /\ ~(base.runs[a] > 0)}
             paid(v) == [w \in Wallets |-> InitialEther + v.donated[w] - v.ether[w]]
  <1>1. \A w : Promise!Of(S, w) = Gained(base, wld, w)
    BY DEF Promise!Of, Gained
  <1>2. \A a \in S : Promise!Batch(a) = KeyOf(a) /\ KeyOf(a) \in batches
    BY DEF Promise!Batch, KeyOf, Sound, Since
  <1>3. {a \in Signed : wld.runs[a] > 0} = {a \in Signed : base.runs[a] > 0} \cup S
    BY DEF Since
  <1>4. wld.used = base.used \cup batches
    BY DEF Since
  <1>5. ASSUME NEW w \in Wallets
        PROVE  /\ wld.delivered[w] = base.delivered[w] + Units(Promise!Of(S, w))
               /\ paid(wld)[w] = paid(base)[w] + Ether(Promise!Of(S, w))
    <2> DEFINE G == Gained(base, wld, w)
    <2>1. G \in SUBSET Signed /\ IsFiniteSet(G)
      BY DEF Gained, Since
    <2>2. Units(G) \in Nat /\ Ether(G) \in Nat
      BY <2>1, AmountsAdd
    <2>3. /\ wld.delivered[w] = base.delivered[w] + Units(G) + 0
          /\ Spent(wld, w) = Spent(base, w) + Ether(G) + 0
      BY DEF Balanced
    <2>4. /\ base.delivered[w] \in Nat /\ base.donated[w] \in Nat /\ base.ether[w] \in Int
          /\ wld.donated[w] \in Nat /\ wld.ether[w] \in Int
          /\ InitialEther \in Nat
      BY ConstantsAssumption DEF World
    <2> HIDE DEF G
    <2>5. wld.delivered[w] = base.delivered[w] + Units(G)
      BY <2>2, <2>3, <2>4
    <2>6. InitialEther + wld.donated[w] - wld.ether[w]
            = InitialEther + base.donated[w] - base.ether[w] + Ether(G)
      BY <2>2, <2>3, <2>4 DEF Spent
    <2> QED BY <1>1, <2>5, <2>6 DEF G
  <1>6. /\ wld.delivered = [w \in Wallets |-> base.delivered[w] + Units(Promise!Of(S, w))]
        /\ paid(wld) = [w \in Wallets |-> paid(base)[w] + Ether(Promise!Of(S, w))]
    <2>1. wld.delivered = [w \in Wallets |-> wld.delivered[w]]
      BY DEF World
    <2> QED BY <1>5, <2>1
  <1>7. paid(Committed') = paid(wld) /\ paid(Committed) = paid(base)
    OBVIOUS
  <1>8. CASE batches = {}
    <2>1. S = {}
      BY <1>2, <1>8
    <2>2. \A w : Units(Promise!Of(S, w)) = 0 /\ Ether(Promise!Of(S, w)) = 0
      <3>1. \A w : Promise!Of(S, w) = {}
        BY <2>1 DEF Promise!Of
      <3> QED BY <3>1, FS_EmptySet, AmountsAdd
    <2>3. \A w \in Wallets : base.delivered[w] \in Nat /\ paid(base)[w] \in Int
      BY ConstantsAssumption DEF World
    <2>4. wld.delivered = base.delivered /\ paid(wld) = paid(base)
      <3>1. /\ \A x \in Int : x + 0 = x
            /\ \A w \in Wallets : base.delivered[w] \in Int
        BY <2>3
      <3>2. ASSUME NEW w \in Wallets
            PROVE  /\ wld.delivered[w] = base.delivered[w] + 0
                   /\ paid(wld)[w] = paid(base)[w] + 0
        BY <1>5, <2>2
      <3>3. \A w \in Wallets : wld.delivered[w] = base.delivered[w]
        BY <3>1, <3>2
      <3>4. \A w \in Wallets : paid(wld)[w] = paid(base)[w]
        BY <2>3, <3>1, <3>2
      <3> QED BY <3>3, <3>4 DEF World
    <2>5. wld.used = base.used
      BY <1>4, <1>8
    <2>6. {a \in Signed : wld.runs[a] > 0} = {a \in Signed : base.runs[a] > 0}
      BY <1>3, <2>1
    <2> QED BY <1>7, <2>4, <2>5, <2>6 DEF Promise!vars
  <1>9. CASE batches # {}
    <2>1. batches \in SUBSET ((Dispatchers \X Sponsors \X BatchIds) \ Committed.used)
      BY DEF World, BatchKey
    <2>2. Promise!Consume(batches)
      BY <1>4, <1>9 DEF Promise!Consume
    <2>3. S \in SUBSET {a \in Signed \ {a \in Signed : Committed.runs[a] > 0} :
                          Promise!Batch(a) \in batches}
      BY <1>2
    <2>4. Promise!Settle(S)
      <3>1. \A a, b \in S : a # b /\ Promise!Batch(a) = Promise!Batch(b)
              => WalletOf[a.op] # WalletOf[b.op]
        BY <1>2 DEF UniqueIn
      <3> QED BY <1>3, <1>6, <1>7, <3>1 DEF Promise!Settle, Units, Ether
    <2> QED BY <2>1, <2>2, <2>3, <2>4 DEF Promise!Next
  <1> QED BY <1>8, <1>9

LEMMA StepsKeepPromise ==
  ASSUME TypeOK, TypeOK', ReplayInv, OnceInv, Ledger, [Next]_vars
  PROVE  [Promise!Next]_(Promise!vars)
  <1>1. CASE Committed' = Committed
    BY <1>1 DEF Promise!vars
  <1>2. CASE /\ stack # <<>> /\ Len(stack) = 1
             /\ Committed = stack[1].saved /\ Committed' = ClearTransient(world)
    <2> DEFINE base == stack[1].saved
    <2>1. base \in World /\ world \in World
      BY <1>2, TopFrame DEF TypeOK, Top
    <2>2. Sound(world)
      <3>1. WorldAt(stack, world, 2) = world /\ 2 \in 1..(Len(stack) + 1)
        BY <1>2 DEF WorldAt
      <3> QED BY <3>1 DEF ReplayInv, ReplayInvOn
    <2>3. UniqueIn(world)
      BY TopWorlds DEF TypeOK, OnceInv
    <2>4. stack[1].kind = "external" /\ WorldKept(stack, 1, world)
          /\ WorldSettled(stack, 1, world)
      BY <1>2, LedgerTop DEF Nested, Returning
    <2>5. Since(base, world) /\ \A w \in Wallets : Balanced(base, world, w, 0, 0)
      <3>1. \A w : ~Open(stack, 1, w)
        BY <2>4 DEF Open
      <3> QED BY <2>4, <3>1 DEF WorldKept, WorldSettled
    <2>6. /\ Committed'.used = world.used /\ Committed'.runs = world.runs
          /\ Committed'.delivered = world.delivered
          /\ Committed'.donated = world.donated /\ Committed'.ether = world.ether
      BY <1>2, <2>1 DEF ClearTransient, World
    <2> QED BY <1>2, <2>1, <2>2, <2>3, <2>5, <2>6, TransactionSettles
  <1> QED BY <1>1, <1>2, CommitsAtTheEnd

LEMMA InitPromise == Init => Promise!Init
  <1> SUFFICES ASSUME Init PROVE Promise!Init
    OBVIOUS
  <1>1. Committed = GenesisWorld
    BY DEF Init, Committed
  <1>2. {a \in Signed : Committed.runs[a] > 0} = {}
    BY <1>1 DEF GenesisWorld
  <1>3. [w \in Wallets |-> InitialEther + Committed.donated[w] - Committed.ether[w]]
          = [w \in Wallets |-> 0]
    BY <1>1, ConstantsAssumption DEF GenesisWorld
  <1> QED BY <1>1, <1>2, <1>3 DEF GenesisWorld, Promise!Init

(***************************************************************************)
(* The executor implements its promise: every transaction, whatever it     *)
(* calls, reenters or reverts, either changes nothing or settles, all at   *)
(* once, signed authorizations of batches nobody has used, one a wallet in *)
(* each batch; and a wallet's deliveries and payments are exactly those    *)
(* its settled authorizations name.                                        *)
(***************************************************************************)
THEOREM ExecutorKeepsPromise == Spec => KeepsPromise
  <1>1. TypeOK /\ TypeOK' /\ ReplayInv /\ OnceInv /\ Ledger /\ [Next]_vars
          => [Promise!Next]_(Promise!vars)
    BY StepsKeepPromise
  <1> QED BY <1>1, InitPromise, TypeCorrect, ReplayInvariant, OnceInvariant, LedgerInvariant,
             PTL DEF Spec, KeepsPromise, Promise!Spec
=============================================================================
