------------------------- MODULE AccountChainProofs -------------------------
(***************************************************************************)
(* Proofs about the local senders of transactions, PublicSnipe and         *)
(* NativeFunds, and about AccountChain, the chain they send to: for every  *)
(* set of accounts, what they hold, every price, fee and number of         *)
(* attempts.                                                               *)
(***************************************************************************)
EXTENDS PublicSnipe, NativeFunds, FiniteSums, FiniteSetTheorems, SequenceTheorems,
        WellFoundedInduction, TLAPS

-----------------------------------------------------------------------------
(* The chain *)

(* A transaction names an account of the program and amounts that can be   *)
(* paid.                                                                   *)
IsTransaction(tx) ==
  /\ tx.from \in Accounts
  /\ tx.nonce \in Nat /\ tx.value \in Nat /\ tx.most \in Nat
  /\ IsFiniteSet(tx.to)

(* A node holds no transaction whose nonce is used; a block holds one for  *)
(* a nonce, of an account's nonces all below the next one, and takes at    *)
(* most the fee that was signed.                                           *)
ChainOK ==
  /\ nonce \in [Accounts -> Nat] /\ coins \in [Accounts -> Nat]
  /\ IsFiniteSet(pool) /\ IsFiniteSet(mined)
  /\ \A tx \in pool : IsTransaction(tx) /\ tx.nonce >= nonce[tx.from]
  /\ \A m \in mined :
       /\ IsTransaction(m.tx) /\ m.tx.nonce < nonce[m.tx.from]
       /\ m.ok \in BOOLEAN /\ m.paid \in Nat /\ m.paid <= m.tx.most
  /\ \A m, n \in mined : m.tx.from = n.tx.from /\ m.tx.nonce = n.tx.nonce => m = n

(* Nothing is held and nothing is in a block at first.                     *)
LEMMA InitChain ==
  ASSUME ChainInit, Holdings \in [Accounts -> Nat]
  PROVE  ChainOK
  <1>1. IsFiniteSet({})
    BY FS_EmptySet
  <1> QED BY <1>1 DEF ChainInit, ChainOK

(* A credit is a share of the value.                                       *)
LEMMA CreditIsNatural ==
  ASSUME NEW tx, IsTransaction(tx), NEW a
  PROVE  Credit(tx, a) \in Nat
  <1>1. CASE a \in tx.to
    <2>1. Cardinality(tx.to) \in Nat /\ Cardinality(tx.to) # 0
      BY <1>1, FS_CardinalityType, FS_EmptySet DEF IsTransaction
    <2> QED BY <1>1, <2>1 DEF Credit, IsTransaction
  <1> QED BY <1>1 DEF Credit

(* A block keeps the chain in order: the nonce it takes was the next one,  *)
(* and what it takes was there.                                            *)
LEMMA IncludeKeeps ==
  ASSUME ChainOK, NEW tx \in pool, NEW ok \in BOOLEAN, NEW paid \in 1..tx.most,
         Include(tx, ok, paid)
  PROVE  ChainOK'
  <1>1. /\ IsTransaction(tx) /\ tx.nonce = nonce[tx.from] /\ Cost(tx) <= coins[tx.from]
        /\ paid \in Nat /\ paid <= tx.most
    BY DEF ChainOK, Include, IsTransaction
  <1> DEFINE new == [tx |-> tx, ok |-> ok, paid |-> paid]
  <1>2. mined' = mined \cup {new} /\ new.tx = tx /\ new.ok = ok /\ new.paid = paid
    BY DEF Include
  <1> HIDE DEF new
  <1>3. /\ nonce' \in [Accounts -> Nat]
        /\ \A a \in Accounts : nonce'[a] = IF a = tx.from THEN nonce[a] + 1 ELSE nonce[a]
    BY <1>1 DEF ChainOK, Include, IsTransaction
  <1>4. coins' \in [Accounts -> Nat]
    <2> SUFFICES ASSUME NEW a \in Accounts
                 PROVE  coins[a] - (IF a = tx.from THEN paid + (IF ok THEN tx.value ELSE 0) ELSE 0)
                                 + (IF ok THEN Credit(tx, a) ELSE 0) \in Nat
      BY DEF Include
    <2>1. coins[a] \in Nat /\ Credit(tx, a) \in Nat /\ tx.value \in Nat /\ tx.most \in Nat
      BY <1>1, CreditIsNatural DEF ChainOK, IsTransaction
    <2> DEFINE credit == Credit(tx, a)
    <2>2. a = tx.from => tx.value + tx.most <= coins[a]
      BY <1>1 DEF Cost
    <2>3. credit \in Nat
      BY <2>1
    <2> HIDE DEF credit
    <2> QED BY <1>1, <2>1, <2>2, <2>3 DEF credit
  <1>5. /\ IsFiniteSet(pool')
        /\ \A other \in pool' : IsTransaction(other) /\ other.nonce >= nonce'[other.from]
    <2>1. pool' \in SUBSET pool
          /\ \A other \in pool' : other.from # tx.from \/ other.nonce # tx.nonce
      BY DEF Include
    <2>2. IsFiniteSet(pool')
      BY <2>1, FS_Subset DEF ChainOK
    <2>3. ASSUME NEW other \in pool' PROVE IsTransaction(other) /\ other.nonce >= nonce'[other.from]
      <3>1. /\ other.nonce >= nonce[other.from] /\ IsTransaction(other)
            /\ other.nonce \in Nat /\ other.from \in Accounts /\ nonce[other.from] \in Nat
        BY <2>1 DEF ChainOK, IsTransaction
      <3> QED BY <1>1, <1>3, <2>1, <3>1
    <2> QED BY <2>2, <2>3
  <1>6. IsFiniteSet(mined')
    BY <1>2, FS_AddElement DEF ChainOK
  <1>7. ASSUME NEW m \in mined
        PROVE  /\ m.tx.nonce < nonce'[m.tx.from]
               /\ ~(m.tx.from = tx.from /\ m.tx.nonce = tx.nonce)
    <2>1. /\ m.tx.from \in Accounts /\ m.tx.nonce \in Nat /\ m.tx.nonce < nonce[m.tx.from]
          /\ nonce[m.tx.from] \in Nat
      BY DEF ChainOK, IsTransaction
    <2> QED BY <1>1, <1>3, <2>1
  <1>8. new.tx.nonce < nonce'[new.tx.from]
    BY <1>1, <1>2, <1>3 DEF IsTransaction
  <1>9. \A m \in mined' :
          /\ IsTransaction(m.tx) /\ m.tx.nonce < nonce'[m.tx.from]
          /\ m.ok \in BOOLEAN /\ m.paid \in Nat /\ m.paid <= m.tx.most
    BY <1>1, <1>2, <1>7, <1>8 DEF ChainOK
  <1>10. \A m, n \in mined' : m.tx.from = n.tx.from /\ m.tx.nonce = n.tx.nonce => m = n
    BY <1>2, <1>7 DEF ChainOK
  <1>11. \A other : IsTransaction(other)' <=> IsTransaction(other)
    BY DEF IsTransaction
  <1> QED BY <1>3, <1>4, <1>5, <1>6, <1>9, <1>10, <1>11 DEF ChainOK, IsTransaction

(* So does a node that takes a transaction.                                *)
LEMMA TakenKeeps ==
  ASSUME ChainOK, NEW tx, IsTransaction(tx), tx.nonce >= nonce[tx.from],
         pool' = pool \cup {tx}, UNCHANGED <<nonce, coins, mined>>
  PROVE  ChainOK'
  <1>1. IsFiniteSet(pool')
    BY FS_AddElement DEF ChainOK
  <1> QED BY <1>1 DEF ChainOK, IsTransaction

LEMMA ChainStays ==
  ASSUME ChainOK, UNCHANGED chain
  PROVE  ChainOK'
  BY DEF ChainOK, chain, IsTransaction

(* What a set of transactions costs is a number, and nothing when there is *)
(* none.                                                                   *)
LEMMA CostsAdd ==
  ASSUME NEW T, IsFiniteSet(T), \A tx \in T : IsTransaction(tx)
  PROVE  MapThenSumSet(Cost, T) \in Nat /\ (T = {} => MapThenSumSet(Cost, T) = 0)
  <1> DEFINE cost == [tx \in T |-> Cost(tx)]
             Solves(k) == k = [s \in SUBSET T |->
                                 IF s = {} THEN 0
                                 ELSE Cost(CHOOSE x \in s : TRUE) + k[s \ {CHOOSE x \in s : TRUE}]]
  <1>1. cost \in [T -> Nat]
    BY DEF Cost, IsTransaction
  <1>2. \A s \in SUBSET T : s # {} => cost[Pick(s)] = Cost(Pick(s))
    BY Picked
  <1>3. PICK k : k = [s \in SUBSET T |-> k[s]] /\ Sums(k, cost, T)
    BY SumExists
  <1> HIDE DEF cost
  <1>4. \A s \in SUBSET T : k[s] = IF s = {} THEN 0 ELSE Cost(Pick(s)) + k[s \ {Pick(s)}]
    BY <1>2, <1>3 DEF Sums
  <1>5. Solves(k)
    BY <1>3, <1>4 DEF Pick
  <1>6. PICK m : Solves(m) /\ MapThenSumSet(Cost, T) = m[T]
    BY <1>5 DEF MapThenSumSet, MapThenFoldSet
  <1>7. \A s \in SUBSET T : m[s] = IF s = {} THEN 0 ELSE Cost(Pick(s)) + m[s \ {Pick(s)}]
    BY <1>6 DEF Pick
  <1>8. Sums(m, cost, T)
    BY <1>2, <1>7 DEF Sums
  <1>9. m[T] \in Nat
    BY <1>1, <1>8, SumsAreNatural
  <1>10. T = {} => m[T] = 0
    BY <1>8 DEF Sums
  <1> QED BY <1>6, <1>9, <1>10

(* What a node answers of an account: no nonce that is used, no more than  *)
(* it holds; and the very next nonce when nothing of it is waiting.        *)
LEMMA ViewsRead ==
  ASSUME ChainOK, NEW a \in Accounts, NEW view \in Views(a)
  PROVE  /\ view.nonce \in Nat /\ view.nonce >= nonce[a]
         /\ view.coins \in Nat /\ view.coins <= coins[a]
         /\ (\A tx \in pool : tx.from # a) => view.nonce = nonce[a] /\ view.coins = coins[a]
  <1>1. nonce[a] \in Nat /\ coins[a] \in Nat /\ Cardinality(pool) \in Nat
    BY FS_CardinalityType DEF ChainOK
  <1>2. PICK n \in {k \in nonce[a]..(nonce[a] + Cardinality(pool)) : InSequence(a, k)} :
          view \in {[nonce |-> n, coins |-> coins[a] - MapThenSumSet(Cost, s)] :
                      s \in {t \in Speculated(a, n) : MapThenSumSet(Cost, t) <= coins[a]}}
    BY DEF Views
  <1>3. PICK s \in {t \in Speculated(a, n) : MapThenSumSet(Cost, t) <= coins[a]} :
          view = [nonce |-> n, coins |-> coins[a] - MapThenSumSet(Cost, s)]
    BY <1>2
  <1>4. view.nonce = n /\ view.coins = coins[a] - MapThenSumSet(Cost, s)
    BY <1>3
  <1>5. s \in SUBSET pool /\ \A tx \in s : tx.from = a
    BY <1>3 DEF Speculated
  <1>6. MapThenSumSet(Cost, s) \in Nat /\ MapThenSumSet(Cost, s) <= coins[a]
    <2>1. IsFiniteSet(s) /\ \A tx \in s : IsTransaction(tx)
      BY <1>5, FS_Subset DEF ChainOK
    <2> QED BY <1>3, <2>1, CostsAdd
  <1>7. n \in Nat /\ n >= nonce[a]
    BY <1>1, <1>2
  <1>8. ASSUME \A tx \in pool : tx.from # a
        PROVE  n = nonce[a] /\ MapThenSumSet(Cost, s) = 0
    <2>1. n = nonce[a]
      <3>1. SUFFICES ASSUME n # nonce[a] PROVE FALSE
        OBVIOUS
      <3>2. nonce[a] \in nonce[a]..(n - 1)
        BY <1>1, <1>7, <3>1
      <3> QED BY <1>2, <1>8, <3>2 DEF InSequence
    <2>2. s = {}
      BY <1>5, <1>8
    <2> QED BY <2>1, <2>2, CostsAdd, FS_EmptySet
  <1> DEFINE spent == MapThenSumSet(Cost, s)
  <1>9. spent \in Nat /\ spent <= coins[a] /\ view.coins = coins[a] - spent
    BY <1>4, <1>6
  <1>10. (\A tx \in pool : tx.from # a) => spent = 0
    BY <1>8
  <1> HIDE DEF spent
  <1> QED BY <1>1, <1>4, <1>7, <1>8, <1>9, <1>10

-----------------------------------------------------------------------------
(* The snipe and the sweep *)

(***************************************************************************)
(* The inductive invariant.  A job stays what it was started as; a snipe   *)
(* has signed for each of its wallets, at the price and at one gas cost    *)
(* that the cap allows for all of them, or for none; a sweep has a wallet  *)
(* left while it runs, and what it is about to send is a transaction; what *)
(* a receipt was found for is in a block.                                  *)
(***************************************************************************)
SnipePlaces == {"plan", "accounts", "wait", "blast", "receipts"}
SweepPlaces == {"sweep", "send"}

JobsAreTyped ==
  /\ kind \in [Jobs -> {"snipe", "sweep"}]
  /\ pc \in [Jobs -> SnipePlaces \cup SweepPlaces \cup Ended]
  /\ seen = [j \in Jobs |-> seen[j]]
  /\ signed = [j \in Jobs |-> signed[j]]
  /\ report = [j \in Jobs |-> report[j]]

StaysItsKind(j) ==
  /\ pc[j] \in SnipePlaces => kind[j] = "snipe"
  /\ pc[j] \in SweepPlaces => kind[j] = "sweep"

NoncesAreRead(j) == \A w \in DOMAIN seen[j] : seen[j][w].nonce \in Nat

SignedForAll(j) ==
  \E gas \in GasCosts[j] :
    /\ Cardinality(WalletsOf(j)) * (Price + gas) <= SpendCap
    /\ DOMAIN signed[j] = WalletsOf(j)
    /\ \A w \in WalletsOf(j) :
         /\ IsTransaction(signed[j][w]) /\ signed[j][w].from = w
         /\ signed[j][w].value = Price /\ signed[j][w].most = gas

SnipeIsSigned(j) ==
  kind[j] = "snipe" =>
    /\ signed[j] # None => SignedForAll(j)
    /\ pc[j] \in {"wait", "blast", "receipts"} => SignedForAll(j)
    /\ pc[j] \in {"plan", "accounts"} => report[j] = None /\ signed[j] = None

SweepHasNext(j) ==
  kind[j] = "sweep" =>
    /\ \A w \in DOMAIN report[j] : report[j][w] \in {"dust", "swept", "failed"}
    /\ pc[j] \in SweepPlaces => DOMAIN report[j] \subseteq Accounts /\ DOMAIN report[j] # Accounts
    /\ pc[j] = "send" => IsTransaction(signed[j][Following(j)])

ReportedIsMined(j) ==
  \A w \in DOMAIN report[j] :
    /\ report[j][w] = "minted" => \E m \in mined : m.tx = signed[j][w] /\ m.ok
    /\ report[j][w] = "reverted" => \E m \in mined : m.tx = signed[j][w] /\ ~m.ok

JobOK(j) ==
  /\ StaysItsKind(j) /\ NoncesAreRead(j) /\ SnipeIsSigned(j) /\ SweepHasNext(j)
  /\ ReportedIsMined(j)

JobsOK == JobsAreTyped /\ \A j \in Jobs : JobOK(j)

SnipeInv == ChainOK /\ JobsOK

(* The first of a set of wallets is one of them.                           *)
LEMMA FirstIsThere ==
  ASSUME NEW s \in SUBSET Nat, s # {}
  PROVE  First(s) \in s
  <1>1. \E m \in s : \A k \in s : ~(<<k, m>> \in OpToRel(<, Nat))
    BY NatLessThanWellFounded, WFMin
  <1>2. PICK m \in s : \A k \in s : ~(<<k, m>> \in OpToRel(<, Nat))
    BY <1>1
  <1>3. ASSUME NEW k \in s PROVE m <= k
    <2>1. k \in Nat /\ m \in Nat
      BY <1>2
    <2>2. ~(k < m)
      BY <1>2, <2>1 DEF OpToRel
    <2> QED BY <2>1, <2>2
  <1> QED BY <1>3 DEF First

LEMMA NothingYet ==
  DOMAIN None = {}
  BY DEF None

(* What a step leaves alone of a job keeps what is claimed of it.          *)
LEMMA JobStays ==
  ASSUME NEW i \in Jobs, JobOK(i), kind'[i] = kind[i], pc'[i] = pc[i], seen'[i] = seen[i],
         signed'[i] = signed[i], report'[i] = report[i], mined \subseteq mined'
  PROVE  JobOK(i)'
  <1>1. WalletsOf(i)' = WalletsOf(i)
    BY DEF WalletsOf
  <1>2. Following(i)' = Following(i)
    BY <1>1 DEF Following
  <1>3. StaysItsKind(i)' /\ NoncesAreRead(i)'
    BY DEF JobOK, StaysItsKind, NoncesAreRead
  <1>4. SignedForAll(i) => SignedForAll(i)'
    BY <1>1 DEF SignedForAll, IsTransaction
  <1>5. SnipeIsSigned(i)'
    BY <1>4 DEF JobOK, SnipeIsSigned
  <1>6. SweepHasNext(i)'
    BY <1>2 DEF JobOK, SweepHasNext, IsTransaction
  <1>7. ReportedIsMined(i)'
    BY DEF JobOK, ReportedIsMined
  <1> QED BY <1>3, <1>5, <1>6, <1>7 DEF JobOK

(* A step of one job leaves the others alone.                              *)
Moves(j, place, read, sent, told) ==
  /\ kind' = kind /\ mined \subseteq mined'
  /\ place \in SnipePlaces \cup SweepPlaces \cup Ended
  /\ pc' = [pc EXCEPT ![j] = place] /\ seen' = [seen EXCEPT ![j] = read]
  /\ signed' = [signed EXCEPT ![j] = sent] /\ report' = [report EXCEPT ![j] = told]

LEMMA JobMoves ==
  ASSUME JobsOK, NEW j \in Jobs, NEW place, NEW read, NEW sent, NEW told,
         Moves(j, place, read, sent, told)
  PROVE  /\ JobsAreTyped'
         /\ \A i \in Jobs : i # j => JobOK(i)'
         /\ kind'[j] = kind[j] /\ pc'[j] = place /\ seen'[j] = read /\ signed'[j] = sent
         /\ report'[j] = told
  <1>1. JobsAreTyped'
    BY DEF JobsOK, JobsAreTyped, Moves
  <1>2. /\ kind'[j] = kind[j] /\ pc'[j] = place /\ seen'[j] = read /\ signed'[j] = sent
        /\ report'[j] = told
    BY DEF JobsOK, JobsAreTyped, Moves
  <1>3. ASSUME NEW i \in Jobs, i # j PROVE JobOK(i)'
    <2>1. kind'[i] = kind[i] /\ pc'[i] = pc[i]
      BY <1>3 DEF JobsOK, JobsAreTyped, Moves
    <2>2. seen'[i] = seen[i]
      BY <1>3 DEF JobsOK, JobsAreTyped, Moves
    <2>3. signed'[i] = signed[i]
      BY <1>3 DEF JobsOK, JobsAreTyped, Moves
    <2>4. report'[i] = report[i]
      BY <1>3 DEF JobsOK, JobsAreTyped, Moves
    <2> QED BY <2>1, <2>2, <2>3, <2>4, JobStays DEF JobsOK, Moves
  <1> QED BY <1>1, <1>2, <1>3

LEMMA Unmoved ==
  ASSUME JobsOK, NEW j \in Jobs
  PROVE  /\ pc = [pc EXCEPT ![j] = pc[j]] /\ seen = [seen EXCEPT ![j] = seen[j]]
         /\ signed = [signed EXCEPT ![j] = signed[j]] /\ report = [report EXCEPT ![j] = report[j]]
  BY DEF JobsOK, JobsAreTyped

(* A job that ends keeps what it signed and what it reported.              *)
LEMMA JobEnds ==
  ASSUME SnipeInv, NEW j \in Jobs, NEW place \in Ended, Goto(j, place), Forget(j),
         UNCHANGED <<chain, kind, signed, report>>
  PROVE  SnipeInv'
  <1>1. ChainOK'
    BY ChainStays DEF SnipeInv
  <1>2. JobsOK /\ JobOK(j)
    BY DEF SnipeInv, JobsOK
  <1>3. Moves(j, place, None, signed[j], report[j])
    BY <1>2, Unmoved DEF Goto, Forget, chain, Moves
  <1>4. /\ JobsAreTyped'
        /\ \A i \in Jobs : i # j => JobOK(i)'
        /\ kind'[j] = kind[j] /\ pc'[j] = place /\ seen'[j] = None /\ signed'[j] = signed[j]
        /\ report'[j] = report[j]
    BY <1>2, <1>3, JobMoves
  <1>5. JobOK(j)'
    <2>1. WalletsOf(j)' = WalletsOf(j)
      BY <1>4 DEF WalletsOf
    <2>2. SignedForAll(j) => SignedForAll(j)'
      BY <1>4, <2>1 DEF SignedForAll, IsTransaction
    <2>3. place \notin SnipePlaces \cup SweepPlaces
      BY DEF Ended, SnipePlaces, SweepPlaces
    <2>4. place \notin {"plan", "accounts", "wait", "blast", "receipts", "send"}
      BY DEF Ended
    <2>5. StaysItsKind(j)' /\ NoncesAreRead(j)'
      BY <1>4, <2>3, NothingYet DEF StaysItsKind, NoncesAreRead
    <2>6. SnipeIsSigned(j)'
      BY <1>2, <1>4, <2>2, <2>4 DEF JobOK, SnipeIsSigned
    <2>7. SweepHasNext(j)'
      BY <1>2, <1>4, <2>3, <2>4 DEF JobOK, SweepHasNext
    <2>8. ReportedIsMined(j)'
      BY <1>2, <1>3, <1>4 DEF Moves, JobOK, ReportedIsMined
    <2> QED BY <2>5, <2>6, <2>7, <2>8 DEF JobOK
  <1> QED BY <1>1, <1>4, <1>5 DEF SnipeInv, JobsOK

LEMMA InitSnipe ==
  ASSUME Init
  PROVE  SnipeInv
  <1>1. ChainOK
    BY InitChain, AccountChainAssumption DEF Init
  <1>2. JobsAreTyped
    BY DEF Init, JobsAreTyped, SnipePlaces, SweepPlaces
  <1>3. ASSUME NEW j \in Jobs PROVE JobOK(j)
    <2>1. /\ seen[j] = None /\ signed[j] = None /\ report[j] = None
          /\ kind[j] \in {"snipe", "sweep"}
          /\ pc[j] = IF kind[j] = "snipe" THEN "plan" ELSE "sweep"
      BY DEF Init
    <2>2. Accounts # {}
      BY AccountChainAssumption
    <2> QED BY <2>1, <2>2, NothingYet
            DEF JobOK, StaysItsKind, NoncesAreRead, SnipeIsSigned, SweepHasNext, ReportedIsMined,
                SnipePlaces, SweepPlaces
  <1> QED BY <1>1, <1>2, <1>3 DEF SnipeInv, JobsOK

(* A step of one job keeps the invariant when it keeps what is claimed of  *)
(* that job and of the chain.                                              *)
LEMMA OneJob ==
  ASSUME SnipeInv, NEW j \in Jobs, NEW place, NEW read, NEW sent, NEW told,
         Moves(j, place, read, sent, told), ChainOK', JobOK(j)'
  PROVE  SnipeInv'
  BY JobMoves DEF SnipeInv, JobsOK

(* The wallets of a job are accounts, numbered.                            *)
LEMMA WalletsAreAccounts ==
  ASSUME NEW j \in Jobs, JobsOK
  PROVE  WalletsOf(j) \in SUBSET Accounts /\ WalletsOf(j) \in SUBSET Nat
  BY PublicSnipeAssumption DEF WalletsOf

(* What is claimed of a snipe that has nothing signed yet.                 *)
LEMMA Unsigned ==
  ASSUME SnipeInv, NEW j \in Jobs, NEW place \in SnipePlaces, NEW read,
         pc[j] \in {"plan", "accounts"}, place \in {"plan", "accounts"},
         Moves(j, place, read, signed[j], report[j]), UNCHANGED chain,
         \A w \in DOMAIN read : read[w].nonce \in Nat
  PROVE  SnipeInv'
  <1>1. ChainOK'
    BY ChainStays DEF SnipeInv
  <1>2. JobsOK /\ JobOK(j)
    BY DEF SnipeInv, JobsOK
  <1>3. /\ kind'[j] = kind[j] /\ pc'[j] = place /\ seen'[j] = read /\ signed'[j] = signed[j]
        /\ report'[j] = report[j]
    BY <1>2, JobMoves
  <1>4. kind[j] = "snipe" /\ report[j] = None /\ signed[j] = None
    BY <1>2 DEF JobOK, StaysItsKind, SnipeIsSigned, SnipePlaces
  <1>5. place \notin SweepPlaces /\ place \notin {"wait", "blast", "receipts", "send"}
    BY DEF SweepPlaces
  <1>6. JobOK(j)'
    BY <1>3, <1>4, <1>5, NothingYet
       DEF JobOK, StaysItsKind, NoncesAreRead, SnipeIsSigned, SweepHasNext, ReportedIsMined
  <1> QED BY <1>1, <1>6, OneJob

LEMMA PlanKeeps ==
  ASSUME SnipeInv, NEW j \in Jobs, NEW reachable, NEW gas, Plan(j, reachable, gas)
  PROVE  SnipeInv'
  <1>1. JobsOK
    BY DEF SnipeInv
  <1>2. "accounts" \in SnipePlaces
    BY DEF SnipePlaces
  <1>3. Moves(j, "accounts", seen[j], signed[j], report[j])
    BY <1>1, <1>2, Unmoved DEF Plan, Goto, Moves, chain
  <1>4. \A w \in DOMAIN seen[j] : seen[j][w].nonce \in Nat
    BY <1>1 DEF JobsOK, JobOK, NoncesAreRead
  <1> QED BY <1>2, <1>3, <1>4, Unsigned DEF Plan, At

LEMMA ReadAccountKeeps ==
  ASSUME SnipeInv, NEW j \in Jobs, NEW w \in Accounts, ReadAccount(j, w)
  PROVE  SnipeInv'
  <1>1. JobsOK /\ ChainOK
    BY DEF SnipeInv
  <1>2. "accounts" \in SnipePlaces
    BY DEF SnipePlaces
  <1>3. PICK view \in Views(w) : seen' = [seen EXCEPT ![j] = With(seen[j], {w}, view)]
    BY DEF ReadAccount
  <1>4. view.nonce \in Nat
    BY <1>1, ViewsRead
  <1> DEFINE read == With(seen[j], {w}, view)
  <1>5. \A v \in DOMAIN read : read[v].nonce \in Nat
    <2>1. /\ DOMAIN read = DOMAIN seen[j] \cup {w} /\ read[w] = view
          /\ \A v \in DOMAIN seen[j] : v # w => read[v] = seen[j][v]
      BY DEF With
    <2> HIDE DEF read
    <2> QED BY <1>1, <1>4, <2>1 DEF JobsOK, JobOK, NoncesAreRead
  <1> HIDE DEF read
  <1>6. Moves(j, "accounts", read, signed[j], report[j])
    BY <1>1, <1>2, <1>3, Unmoved DEF ReadAccount, At, Moves, chain, read
  <1> QED BY <1>2, <1>5, <1>6, Unsigned DEF ReadAccount, At

LEMMA ArmKeeps ==
  ASSUME SnipeInv, NEW j \in Jobs, NEW gas \in GasCosts[j], Arm(j, gas)
  PROVE  SnipeInv'
  <1> DEFINE sent == [w \in WalletsOf(j) |-> Mint(w, seen[j][w], gas)]
  <1>1. JobsOK /\ JobOK(j) /\ ChainOK'
    BY ChainStays DEF SnipeInv, JobsOK, Arm
  <1>2. kind[j] = "snipe" /\ report[j] = None
    BY <1>1 DEF Arm, At, JobOK, StaysItsKind, SnipeIsSigned, SnipePlaces
  <1>3. Moves(j, "wait", None, sent, report[j])
    BY <1>1, Unmoved DEF Arm, Goto, Moves, chain, SnipePlaces
  <1>4. /\ kind'[j] = kind[j] /\ pc'[j] = "wait" /\ seen'[j] = None /\ signed'[j] = sent
        /\ report'[j] = report[j]
    BY <1>1, <1>3, JobMoves
  <1>5. WalletsOf(j)' = WalletsOf(j) /\ WalletsOf(j) \in SUBSET Accounts
    BY <1>1, <1>4, WalletsAreAccounts DEF WalletsOf
  <1>6. ASSUME NEW w \in WalletsOf(j)
        PROVE  /\ IsTransaction(sent[w]) /\ sent[w].from = w
               /\ sent[w].value = Price /\ sent[w].most = gas
    <2>1. sent[w] = [what |-> "mint", from |-> w, nonce |-> seen[j][w].nonce, to |-> {},
                     value |-> Price, most |-> gas]
      BY DEF Mint
    <2>2. seen[j][w].nonce \in Nat
      BY <1>1 DEF Arm, JobOK, NoncesAreRead
    <2>3. gas \in Nat /\ Price \in Nat /\ IsFiniteSet({})
      BY PublicSnipeAssumption, FS_EmptySet
    <2> HIDE DEF sent
    <2> QED BY <1>5, <2>1, <2>2, <2>3 DEF IsTransaction
  <1>7. Cardinality(WalletsOf(j)) * (Price + gas) <= SpendCap /\ DOMAIN sent = WalletsOf(j)
    BY DEF Arm, Affordable
  <1> HIDE DEF sent
  <1>8. SignedForAll(j)'
    BY <1>4, <1>5, <1>6, <1>7 DEF SignedForAll, IsTransaction
  <1>9. JobOK(j)'
    BY <1>2, <1>4, <1>8, NothingYet
       DEF JobOK, StaysItsKind, NoncesAreRead, SnipeIsSigned, SweepHasNext, ReportedIsMined,
           SnipePlaces, SweepPlaces
  <1> QED BY <1>1, <1>3, <1>9, OneJob

(* What is claimed of a snipe after it has signed.                         *)
LEMMA AfterSigning ==
  ASSUME SnipeInv, NEW j \in Jobs, NEW place \in {"blast", "receipts"} \cup Ended,
         NEW read, NEW told, \A w \in DOMAIN read : read[w].nonce \in Nat,
         pc[j] \in {"wait", "blast", "receipts"}, Moves(j, place, read, signed[j], told),
         ChainOK',
         \A w \in DOMAIN told :
           /\ told[w] = "minted" => \E m \in mined : m.tx = signed[j][w] /\ m.ok
           /\ told[w] = "reverted" => \E m \in mined : m.tx = signed[j][w] /\ ~m.ok
  PROVE  SnipeInv'
  <1>1. JobsOK /\ JobOK(j)
    BY DEF SnipeInv, JobsOK
  <1>2. /\ kind'[j] = kind[j] /\ pc'[j] = place /\ seen'[j] = read /\ signed'[j] = signed[j]
        /\ report'[j] = told
    BY <1>1, JobMoves
  <1>3. kind[j] = "snipe" /\ SignedForAll(j)
    BY <1>1 DEF JobOK, StaysItsKind, SnipeIsSigned, SnipePlaces
  <1>4. WalletsOf(j)' = WalletsOf(j)
    BY <1>2 DEF WalletsOf
  <1>5. SignedForAll(j)'
    BY <1>2, <1>3, <1>4 DEF SignedForAll, IsTransaction
  <1>6. StaysItsKind(j)' /\ NoncesAreRead(j)' /\ SnipeIsSigned(j)' /\ SweepHasNext(j)'
    BY <1>1, <1>2, <1>3, <1>5
       DEF JobOK, StaysItsKind, NoncesAreRead, SnipeIsSigned, SweepHasNext, SnipePlaces, SweepPlaces,
           Ended
  <1>7. mined \subseteq mined'
    BY DEF Moves
  <1>8. ReportedIsMined(j)'
    BY <1>2, <1>7 DEF ReportedIsMined
  <1>9. JobOK(j)'
    BY <1>6, <1>8 DEF JobOK
  <1> QED BY <1>9, OneJob

LEMMA SoFar ==
  ASSUME SnipeInv, NEW j \in Jobs
  PROVE  /\ \A w \in DOMAIN seen[j] : seen[j][w].nonce \in Nat
         /\ \A w \in DOMAIN report[j] :
              /\ report[j][w] = "minted" => \E m \in mined : m.tx = signed[j][w] /\ m.ok
              /\ report[j][w] = "reverted" => \E m \in mined : m.tx = signed[j][w] /\ ~m.ok
  BY DEF SnipeInv, JobsOK, JobOK, NoncesAreRead, ReportedIsMined

LEMMA FireKeeps ==
  ASSUME SnipeInv, NEW j \in Jobs, Fire(j)
  PROVE  SnipeInv'
  <1>1. JobsOK /\ ChainOK'
    BY ChainStays DEF SnipeInv, Fire
  <1>2. Moves(j, "blast", seen[j], signed[j], report[j])
    BY <1>1, Unmoved DEF Fire, Goto, Moves, chain, SnipePlaces
  <1>3. pc[j] = "wait"
    BY DEF Fire, At
  <1> QED BY <1>1, <1>2, <1>3, SoFar, AfterSigning

(* A delivery leaves the blocks alone and what a node holds in order.      *)
LEMMA DeliveredKeeps ==
  ASSUME ChainOK, NEW tx, IsTransaction(tx), NEW answer, Delivered(tx, answer),
         UNCHANGED <<nonce, coins, mined>>
  PROVE  ChainOK'
  <1>1. CASE UNCHANGED pool
    BY <1>1, ChainStays DEF chain
  <1>2. CASE Takes(tx) /\ pool' = pool \cup {tx}
    BY <1>2, TakenKeeps DEF Takes
  <1> QED BY <1>1, <1>2 DEF Delivered

LEMMA AnswerKeeps ==
  ASSUME SnipeInv, NEW j \in Jobs, NEW w \in WalletsOf(j), NEW e, NEW answer,
         Answer(j, w, e, answer)
  PROVE  SnipeInv'
  <1>1. JobsOK /\ JobOK(j)
    BY DEF SnipeInv, JobsOK
  <1>2. pc[j] = "blast"
    BY DEF Answer, At
  <1>3. SignedForAll(j)
    BY <1>1, <1>2 DEF JobOK, StaysItsKind, SnipeIsSigned, SnipePlaces
  <1>4. IsTransaction(signed[j][w])
    BY <1>3 DEF SignedForAll
  <1>5. ChainOK'
    BY <1>4, DeliveredKeeps DEF SnipeInv, Answer
  <1>6. Moves(j, "blast", seen[j], signed[j], report[j])
    BY <1>1, <1>2, Unmoved DEF Answer, Moves, SnipePlaces
  <1> QED BY <1>2, <1>5, <1>6, SoFar, AfterSigning

LEMMA CollectKeeps ==
  ASSUME SnipeInv, NEW j \in Jobs, Collect(j)
  PROVE  SnipeInv'
  <1> DEFINE told == [w \in WalletsOf(j) \ Accepted(j) |-> "rejected"]
  <1>1. JobsOK /\ ChainOK'
    BY ChainStays DEF SnipeInv, Collect
  <1>2. \A w \in DOMAIN told : told[w] = "rejected"
    OBVIOUS
  <1>3. report' = [report EXCEPT ![j] = told] /\ pc[j] = "blast"
    BY DEF Collect, At
  <1> HIDE DEF told
  <1>4. \A w \in DOMAIN None : None[w].nonce \in Nat
    BY NothingYet
  <1>5. CASE Goto(j, "done") /\ Forget(j)
    <2>1. Moves(j, "done", None, signed[j], told)
      BY <1>1, <1>3, <1>5, Unmoved DEF Collect, Goto, Forget, Moves, chain, Ended
    <2> QED BY <1>1, <1>2, <1>3, <1>4, <2>1, AfterSigning DEF Ended
  <1>6. CASE Goto(j, "receipts") /\ UNCHANGED seen
    <2>1. Moves(j, "receipts", seen[j], signed[j], told)
      BY <1>1, <1>3, <1>6, Unmoved DEF Collect, Goto, Moves, chain, SnipePlaces
    <2> QED BY <1>1, <1>2, <1>3, <2>1, SoFar, AfterSigning
  <1> QED BY <1>5, <1>6 DEF Collect

(* A receipt is only taken for a transaction that is in a block.           *)
LEMMA ReceiptKeeps ==
  ASSUME SnipeInv, NEW j \in Jobs, NEW found, Receipt(j, found)
  PROVE  SnipeInv'
  <1> DEFINE w == Following(j)
             told == With(report[j], {w}, found)
  <1>1. JobsOK /\ ChainOK'
    BY ChainStays DEF SnipeInv, Receipt
  <1>2. found \in Found(j, w) /\ report' = [report EXCEPT ![j] = told] /\ pc[j] = "receipts"
    BY DEF Receipt, At
  <1>3. /\ found = "minted" => \E m \in mined : m.tx = signed[j][w] /\ m.ok
        /\ found = "reverted" => \E m \in mined : m.tx = signed[j][w] /\ ~m.ok
    BY <1>2 DEF Found, Receipts
  <1>4. DOMAIN told = {w} \cup DOMAIN report[j] /\ told[w] = found
        /\ \A v \in DOMAIN report[j] : v # w => told[v] = report[j][v]
    BY DEF With
  <1>5. CASE Goto(j, "done") /\ Forget(j)
    <2>1. Moves(j, "done", None, signed[j], told)
      BY <1>1, <1>2, <1>5, Unmoved DEF Receipt, Goto, Forget, Moves, chain, Ended
    <2> HIDE DEF told, w
    <2>2. \A v \in DOMAIN told :
            /\ told[v] = "minted" => \E m \in mined : m.tx = signed[j][v] /\ m.ok
            /\ told[v] = "reverted" => \E m \in mined : m.tx = signed[j][v] /\ ~m.ok
      BY <1>3, <1>4, SoFar
    <2>3. \A v \in DOMAIN None : None[v].nonce \in Nat
      BY NothingYet
    <2> QED BY <1>1, <1>2, <2>1, <2>2, <2>3, AfterSigning DEF Ended
  <1>6. CASE UNCHANGED <<pc, seen>>
    <2>1. Moves(j, "receipts", seen[j], signed[j], told)
      BY <1>1, <1>2, <1>6, Unmoved DEF Receipt, Moves, chain, SnipePlaces
    <2> HIDE DEF told, w
    <2>2. \A v \in DOMAIN told :
            /\ told[v] = "minted" => \E m \in mined : m.tx = signed[j][v] /\ m.ok
            /\ told[v] = "reverted" => \E m \in mined : m.tx = signed[j][v] /\ ~m.ok
      BY <1>3, <1>4, SoFar
    <2> QED BY <1>1, <1>2, <2>1, <2>2, SoFar, AfterSigning
  <1> QED BY <1>5, <1>6 DEF Receipt

(* Every way a snipe or a sweep ends early.                                *)
LEMMA AbortsKeep ==
  ASSUME SnipeInv, NEW j \in Jobs, Aborts(j) \/ ReceiptFails(j)
  PROVE  SnipeInv'
  BY JobEnds DEF Aborts, ReceiptFails, Ended

LEMMA SnipeKeeps ==
  ASSUME SnipeInv, NEW j \in Jobs, Snipe(j) \/ SnipeFails(j)
  PROVE  SnipeInv'
  <1>1. ASSUME NEW reachable, NEW gas, Plan(j, reachable, gas) PROVE SnipeInv'
    BY <1>1, PlanKeeps
  <1>2. ASSUME NEW reachable, NoTarget(j, reachable) PROVE SnipeInv'
    BY <1>2, AbortsKeep DEF NoTarget
  <1>3. ASSUME NEW w \in Accounts, ReadAccount(j, w) PROVE SnipeInv'
    BY <1>3, ReadAccountKeeps
  <1>4. ASSUME NEW gas \in GasCosts[j], Arm(j, gas) PROVE SnipeInv'
    BY <1>4, ArmKeeps
  <1>5. CASE Refuse(j)
    BY <1>5, AbortsKeep DEF Refuse
  <1>6. CASE Fire(j)
    BY <1>6, FireKeeps
  <1>7. ASSUME NEW w \in WalletsOf(j), NEW e, NEW answer, Answer(j, w, e, answer) PROVE SnipeInv'
    BY <1>7, AnswerKeeps
  <1>8. CASE Collect(j)
    BY <1>8, CollectKeeps
  <1>9. ASSUME NEW found, Receipt(j, found) PROVE SnipeInv'
    BY <1>9, ReceiptKeeps
  <1>10. CASE SnipeFails(j)
    BY <1>10, AbortsKeep DEF SnipeFails, ResolveFails, NoPublicStage, ReadFails
  <1> QED BY <1>1, <1>2, <1>3, <1>4, <1>5, <1>6, <1>7, <1>8, <1>9, <1>10 DEF Snipe

(* A sweep that runs has a wallet left.                                    *)
LEMMA SweepGoesOn ==
  ASSUME SnipeInv, NEW j \in Jobs, pc[j] \in SweepPlaces
  PROVE  /\ kind[j] = "sweep" /\ WalletsOf(j) = Accounts /\ Following(j) \in Accounts
         /\ DOMAIN report[j] \subseteq Accounts
         /\ \A v \in DOMAIN report[j] : report[j][v] \in {"dust", "swept", "failed"}
  <1>1. kind[j] = "sweep" /\ WalletsOf(j) = Accounts
    BY DEF SnipeInv, JobsOK, JobOK, StaysItsKind, WalletsOf
  <1>2. DOMAIN report[j] \subseteq Accounts /\ DOMAIN report[j] # Accounts
    BY <1>1 DEF SnipeInv, JobsOK, JobOK, SweepHasNext
  <1>3. \A v \in DOMAIN report[j] : report[j][v] \in {"dust", "swept", "failed"}
    BY <1>1 DEF SnipeInv, JobsOK, JobOK, SweepHasNext
  <1> DEFINE left == WalletsOf(j) \ DOMAIN report[j]
  <1>4. left # {} /\ left \in SUBSET Nat /\ left \in SUBSET Accounts
    BY <1>1, <1>2, PublicSnipeAssumption
  <1>5. First(left) \in left
    BY <1>4, FirstIsThere
  <1> QED BY <1>1, <1>2, <1>3, <1>4, <1>5 DEF Following

(* Once a wallet is dealt with, the sweep goes on to the next or is done.  *)
LEMMA OutcomeKeeps ==
  ASSUME SnipeInv, NEW j \in Jobs, pc[j] \in SweepPlaces, NEW sent,
         NEW outcome \in {"dust", "swept", "failed"}, Outcome(j, Following(j), outcome),
         signed' = [signed EXCEPT ![j] = sent], UNCHANGED <<kind, seen, mined>>, ChainOK'
  PROVE  SnipeInv'
  <1> DEFINE w == Following(j)
             told == With(report[j], {w}, outcome)
             place == IF DOMAIN told = Accounts THEN "done" ELSE "sweep"
  <1>1. JobsOK
    BY DEF SnipeInv
  <1>2. /\ kind[j] = "sweep" /\ WalletsOf(j) = Accounts /\ w \in Accounts
        /\ DOMAIN report[j] \subseteq Accounts
        /\ \A v \in DOMAIN report[j] : report[j][v] \in {"dust", "swept", "failed"}
    BY SweepGoesOn
  <1>3. Moves(j, place, seen[j], sent, told)
    BY <1>1, <1>2, Unmoved DEF Outcome, Goto, Moves, Ended, SweepPlaces
  <1>4. /\ DOMAIN told \subseteq Accounts
        /\ \A v \in DOMAIN told : told[v] \in {"dust", "swept", "failed"}
    BY <1>2 DEF With
  <1>5. place \in {"done", "sweep"} /\ (place = "sweep" => DOMAIN told # Accounts)
    OBVIOUS
  <1> HIDE DEF place, told, w
  <1>6. /\ kind'[j] = kind[j] /\ pc'[j] = place /\ seen'[j] = seen[j] /\ signed'[j] = sent
        /\ report'[j] = told
    BY <1>1, <1>3, JobMoves
  <1>7. NoncesAreRead(j)'
    BY <1>6, SoFar DEF NoncesAreRead
  <1>8. StaysItsKind(j)'
    BY <1>2, <1>5, <1>6 DEF StaysItsKind, SnipePlaces
  <1>9. SweepHasNext(j)'
    BY <1>2, <1>4, <1>5, <1>6 DEF SweepHasNext, SweepPlaces
  <1>10. SnipeIsSigned(j)' /\ ReportedIsMined(j)'
    BY <1>2, <1>4, <1>6 DEF SnipeIsSigned, ReportedIsMined
  <1>11. JobOK(j)'
    BY <1>7, <1>8, <1>9, <1>10 DEF JobOK
  <1> QED BY <1>3, <1>11, OneJob

LEMMA SweepReadKeeps ==
  ASSUME SnipeInv, NEW j \in Jobs, NEW gas \in GasCosts[j], SweepRead(j, gas)
  PROVE  SnipeInv'
  <1> DEFINE w == Following(j)
  <1>1. pc[j] \in SweepPlaces /\ pc[j] = "sweep"
    BY DEF SweepRead, At, SweepPlaces
  <1>2. /\ kind[j] = "sweep" /\ WalletsOf(j) = Accounts /\ w \in Accounts
        /\ DOMAIN report[j] \subseteq Accounts
        /\ \A v \in DOMAIN report[j] : report[j][v] \in {"dust", "swept", "failed"}
    BY <1>1, SweepGoesOn
  <1>3. JobsOK /\ JobOK(j) /\ ChainOK /\ ChainOK'
    BY ChainStays DEF SnipeInv, JobsOK, SweepRead
  <1>4. PICK view \in Views(w) :
          IF view.coins > gas
            THEN /\ signed' = [signed EXCEPT ![j] = With(None, {w}, Transfer(w, view, gas))]
                 /\ Goto(j, "send")
                 /\ UNCHANGED report
            ELSE Outcome(j, w, "dust") /\ UNCHANGED signed
    BY DEF SweepRead
  <1>5. CASE view.coins > gas
    <2> DEFINE sent == With(None, {w}, Transfer(w, view, gas))
    <2>1. /\ sent[w] = [what |-> "sweep", from |-> w, nonce |-> view.nonce, to |-> {},
                        value |-> view.coins - gas, most |-> gas]
      BY DEF With, Transfer
    <2>2. /\ view.nonce \in Nat /\ view.coins - gas \in Nat /\ gas \in Nat /\ IsFiniteSet({})
      BY <1>2, <1>3, <1>5, ViewsRead, PublicSnipeAssumption, FS_EmptySet
    <2>3. Moves(j, "send", seen[j], sent, report[j])
      BY <1>3, <1>4, <1>5, Unmoved DEF SweepRead, Goto, Moves, chain, SweepPlaces
    <2> HIDE DEF sent
    <2>4. IsTransaction(sent[w])
      BY <1>2, <2>1, <2>2 DEF IsTransaction
    <2>5. /\ kind'[j] = kind[j] /\ pc'[j] = "send" /\ seen'[j] = seen[j] /\ signed'[j] = sent
          /\ report'[j] = report[j]
      BY <1>3, <2>3, JobMoves
    <2>6. Following(j)' = w /\ WalletsOf(j)' = WalletsOf(j)
      BY <2>5 DEF Following, WalletsOf
    <2> HIDE DEF w
    <2>7. SweepHasNext(j)'
      BY <1>1, <1>2, <1>3, <2>4, <2>5, <2>6 DEF SweepHasNext, JobOK, SweepPlaces, IsTransaction
    <2>8. StaysItsKind(j)' /\ NoncesAreRead(j)' /\ SnipeIsSigned(j)' /\ ReportedIsMined(j)'
      BY <1>2, <1>3, <2>5
         DEF StaysItsKind, NoncesAreRead, SnipeIsSigned, ReportedIsMined, JobOK, SnipePlaces
    <2>9. JobOK(j)'
      BY <2>7, <2>8 DEF JobOK
    <2> QED BY <1>3, <2>3, <2>9, OneJob
  <1>6. CASE ~(view.coins > gas)
    <2>1. signed' = [signed EXCEPT ![j] = signed[j]] /\ Outcome(j, w, "dust")
      BY <1>3, <1>4, <1>6, Unmoved
    <2> QED BY <1>1, <1>3, <2>1, OutcomeKeeps DEF SweepRead, chain
  <1> QED BY <1>5, <1>6

LEMMA SweepSendKeeps ==
  ASSUME SnipeInv, NEW j \in Jobs, NEW answer, SweepSend(j, answer)
  PROVE  SnipeInv'
  <1>1. pc[j] \in SweepPlaces /\ pc[j] = "send"
    BY DEF SweepSend, At, SweepPlaces
  <1>2. IsTransaction(signed[j][Following(j)])
    BY <1>1, SweepGoesOn DEF SnipeInv, JobsOK, JobOK, SweepHasNext
  <1>3. ChainOK'
    BY <1>2, DeliveredKeeps DEF SnipeInv, SweepSend
  <1> DEFINE outcome == IF answer = "hash" THEN "swept" ELSE "failed"
  <1>4. outcome \in {"dust", "swept", "failed"} /\ Outcome(j, Following(j), outcome)
    BY DEF SweepSend
  <1> HIDE DEF outcome
  <1> QED BY <1>1, <1>3, <1>4, OutcomeKeeps DEF SweepSend

LEMMA SweepKeeps ==
  ASSUME SnipeInv, NEW j \in Jobs, Sweep(j)
  PROVE  SnipeInv'
  <1>1. ASSUME NEW gas \in GasCosts[j], SweepRead(j, gas) PROVE SnipeInv'
    BY <1>1, SweepReadKeeps
  <1>2. CASE SweepFails(j)
    BY <1>2, AbortsKeep DEF SweepFails
  <1>3. CASE SweepReadFails(j)
    <2>1. JobsOK /\ ChainOK'
      BY <1>3, ChainStays DEF SnipeInv, SweepReadFails
    <2>2. pc[j] \in SweepPlaces /\ Outcome(j, Following(j), "failed")
      BY <1>3 DEF SweepReadFails, At, SweepPlaces
    <2>3. signed' = [signed EXCEPT ![j] = signed[j]]
      BY <1>3, <2>1, Unmoved DEF SweepReadFails
    <2> QED BY <1>3, <2>1, <2>2, <2>3, OutcomeKeeps DEF SweepReadFails, chain
  <1>4. ASSUME NEW answer, SweepSend(j, answer) PROVE SnipeInv'
    BY <1>4, SweepSendKeeps
  <1> QED BY <1>1, <1>2, <1>3, <1>4 DEF Sweep

(* Blocks only add to what is mined, and the jobs do not see them.         *)
LEMMA JobsWait ==
  ASSUME SnipeInv, ChainOK', UNCHANGED job, mined \subseteq mined'
  PROVE  SnipeInv'
  <1>1. JobsAreTyped'
    BY DEF SnipeInv, JobsOK, JobsAreTyped, job
  <1>2. ASSUME NEW i \in Jobs PROVE JobOK(i)'
    BY JobStays DEF SnipeInv, JobsOK, job
  <1> QED BY <1>1, <1>2 DEF SnipeInv, JobsOK

LEMMA SnipeStepKeeps ==
  ASSUME SnipeInv, [Next]_vars
  PROVE  SnipeInv'
  <1>1. ASSUME NEW j \in Jobs, Snipe(j) \/ SnipeFails(j) PROVE SnipeInv'
    BY <1>1, SnipeKeeps
  <1>2. ASSUME NEW j \in Jobs, Sweep(j) PROVE SnipeInv'
    BY <1>2, SweepKeeps
  <1>3. ASSUME NEW tx \in pool, NEW ok \in BOOLEAN, NEW paid \in 1..tx.most, Block(tx, ok, paid)
        PROVE  SnipeInv'
    <2>1. ChainOK' /\ mined \subseteq mined' /\ UNCHANGED job
      BY <1>3, IncludeKeeps DEF SnipeInv, Block, Include
    <2> QED BY <2>1, JobsWait
  <1>4. CASE Open \/ UNCHANGED vars
    <2>1. UNCHANGED job /\ UNCHANGED chain
      BY <1>4 DEF Open, vars
    <2>2. ChainOK' /\ mined \subseteq mined'
      BY <2>1, ChainStays DEF SnipeInv, chain
    <2> QED BY <2>1, <2>2, JobsWait
  <1> QED BY <1>1, <1>2, <1>3, <1>4 DEF Next, World, AllEnded

LEMMA SnipeInvHolds ==
  Spec => []SnipeInv
  <1> QED BY InitSnipe, SnipeStepKeeps, PTL DEF Spec

(***************************************************************************)
(* What a snipe reports of a wallet is what the blocks say of the          *)
(* transaction it signed for it, whatever other jobs sent under the same   *)
(* nonce: a receipt is looked up by its own hash (snipe.rs, the receipt    *)
(* loop), and one nonce has one transaction in a block.                    *)
(***************************************************************************)
THEOREM ReceiptsAreOwn == Spec => []ReportIsTrue
  <1>1. ASSUME SnipeInv PROVE ReportIsTrue
    <2> SUFFICES ASSUME NEW j \in Jobs, NEW w \in DOMAIN report[j]
                 PROVE  /\ report[j][w] = "minted" => signed[j][w] \in Succeeded
                        /\ report[j][w] = "reverted" => signed[j][w] \in Landed \ Succeeded
      BY DEF ReportIsTrue
    <2>1. CASE report[j][w] = "minted"
      BY <1>1, <2>1, SoFar DEF Succeeded
    <2>2. CASE report[j][w] = "reverted"
      <3>1. PICK m \in mined : m.tx = signed[j][w] /\ ~m.ok
        BY <1>1, <2>2, SoFar
      <3>2. ASSUME NEW n \in mined, n.tx = signed[j][w] PROVE n = m
        BY <1>1, <3>1, <3>2 DEF SnipeInv, ChainOK
      <3> QED BY <2>2, <3>1, <3>2 DEF Succeeded, Landed
    <2> QED BY <2>1, <2>2
  <1> QED BY <1>1, SnipeInvHolds, PTL

(* The sum of what a set of blocks took is bounded by what each took.      *)
LEMMA SpendingIsBounded ==
  ASSUME NEW T, IsFiniteSet(T), NEW b \in Nat,
         \A m \in T : SpentOf(m) \in Nat /\ SpentOf(m) <= b
  PROVE  /\ MapThenSumSet(SpentOf, T) \in Nat
         /\ MapThenSumSet(SpentOf, T) <= Cardinality(T) * b
  <1> DEFINE spent == [m \in T |-> SpentOf(m)]
             Solves(k) == k = [s \in SUBSET T |->
                                 IF s = {} THEN 0
                                 ELSE SpentOf(CHOOSE x \in s : TRUE)
                                        + k[s \ {CHOOSE x \in s : TRUE}]]
  <1>1. spent \in [T -> Nat] /\ \A m \in T : spent[m] <= b
    OBVIOUS
  <1>2. \A s \in SUBSET T : s # {} => spent[Pick(s)] = SpentOf(Pick(s))
    BY Picked
  <1>3. PICK k : k = [s \in SUBSET T |-> k[s]] /\ Sums(k, spent, T)
    BY SumExists
  <1> HIDE DEF spent
  <1>4. \A s \in SUBSET T : k[s] = IF s = {} THEN 0 ELSE SpentOf(Pick(s)) + k[s \ {Pick(s)}]
    BY <1>2, <1>3 DEF Sums
  <1>5. Solves(k)
    BY <1>3, <1>4 DEF Pick
  <1>6. PICK n : Solves(n) /\ MapThenSumSet(SpentOf, T) = n[T]
    BY <1>5 DEF MapThenSumSet, MapThenFoldSet
  <1>7. \A s \in SUBSET T : n[s] = IF s = {} THEN 0 ELSE SpentOf(Pick(s)) + n[s \ {Pick(s)}]
    BY <1>6 DEF Pick
  <1>8. Sums(n, spent, T)
    BY <1>2, <1>7 DEF Sums
  <1>9. n[T] \in Nat
    BY <1>1, <1>8, SumsAreNatural
  <1>10. n[T] <= Cardinality(T) * b
    BY <1>1, <1>8, SumsAreBounded
  <1> QED BY <1>6, <1>9, <1>10

LEMMA FewerTimes ==
  ASSUME NEW m \in Nat, NEW n \in Nat, m <= n, NEW b \in Nat
  PROVE  m * b <= n * b
  <1>1. n - m \in Nat
    OBVIOUS
  <1>2. (n - m) * b >= 0
    BY <1>1
  <1>3. n * b = m * b + (n - m) * b
    OBVIOUS
  <1> DEFINE less == m * b
             more == (n - m) * b
  <1>4. less \in Int /\ more \in Int /\ more >= 0 /\ n * b = less + more
    BY <1>1, <1>2, <1>3
  <1> HIDE DEF less, more
  <1>5. less <= less + more
    BY <1>4
  <1> QED BY <1>4, <1>5 DEF less

(***************************************************************************)
(* The blocks never take more for a snipe than MAX_TOTAL_SPEND_WEI: every  *)
(* wallet has one signed transaction, a block takes it once, at no more    *)
(* than the price and the gas cost it was signed with, and the cap was     *)
(* checked for all of them before anything was signed (snipe.rs, the       *)
(* affordability check).                                                   *)
(***************************************************************************)
THEOREM CapBoundsSpending == Spec => []SpendStaysInCap
  <1>1. ASSUME SnipeInv PROVE SpendStaysInCap
    <2> SUFFICES ASSUME NEW j \in Jobs, kind[j] = "snipe"
                 PROVE  MapThenSumSet(SpentOf, {m \in mined : m.tx \in Txs(j)}) <= SpendCap
      BY DEF SpendStaysInCap
    <2> DEFINE T == {m \in mined : m.tx \in Txs(j)}
               W == WalletsOf(j)
    <2>1. IsFiniteSet(T) /\ IsFiniteSet(W) /\ Cardinality(T) \in Nat /\ Cardinality(W) \in Nat
      <3>1. IsFiniteSet(mined) /\ IsFiniteSet(Accounts) /\ W \in SUBSET Accounts
        BY <1>1, WalletsAreAccounts, AccountChainAssumption DEF SnipeInv, ChainOK
      <3> QED BY <3>1, FS_Subset, FS_CardinalityType
    <2>2. SpendCap \in Nat /\ Price \in Nat
      BY PublicSnipeAssumption
    <2>3. CASE signed[j] = None
      <3>1. T = {}
        BY <2>3, NothingYet DEF Txs
      <3>2. \A m \in T : SpentOf(m) \in Nat /\ SpentOf(m) <= 0
        BY <3>1
      <3> HIDE DEF T
      <3>3. MapThenSumSet(SpentOf, T) <= Cardinality(T) * 0 /\ MapThenSumSet(SpentOf, T) \in Nat
        BY <2>1, <3>2, SpendingIsBounded
      <3> DEFINE total == MapThenSumSet(SpentOf, T)
      <3>4. total <= 0 /\ total \in Nat
        BY <2>1, <3>3
      <3> HIDE DEF total
      <3>5. total <= SpendCap
        BY <2>2, <3>4
      <3> QED BY <3>5 DEF total, T
    <2>4. CASE signed[j] # None
      <3>1. SignedForAll(j)
        BY <1>1, <2>4 DEF SnipeInv, JobsOK, JobOK, SnipeIsSigned
      <3>2. PICK gas \in GasCosts[j] :
              /\ Cardinality(W) * (Price + gas) <= SpendCap
              /\ DOMAIN signed[j] = W
              /\ \A w \in W : /\ IsTransaction(signed[j][w]) /\ signed[j][w].from = w
                              /\ signed[j][w].value = Price /\ signed[j][w].most = gas
        BY <3>1 DEF SignedForAll
      <3> DEFINE b == Price + gas
      <3>3. gas \in Nat /\ b \in Nat
        BY <2>2, PublicSnipeAssumption
      <3>4. ASSUME NEW m \in T
            PROVE  /\ m \in mined /\ m.tx.from \in W /\ m.tx = signed[j][m.tx.from]
                   /\ SpentOf(m) \in Nat /\ SpentOf(m) <= b
        <4>1. PICK w \in W : m.tx = signed[j][w]
          BY <3>2 DEF Txs
        <4>2. m.tx.from = w /\ m.tx.value = Price /\ m.tx.most = gas
          BY <3>2, <4>1
        <4>3. m.paid \in Nat /\ m.paid <= gas /\ m.ok \in BOOLEAN
          BY <1>1, <4>2 DEF SnipeInv, ChainOK
        <4> QED BY <2>2, <3>3, <4>1, <4>2, <4>3 DEF SpentOf
      <3> DEFINE owner == [m \in T |-> m.tx.from]
      <3>5. owner \in Injection(T, W)
        <4>1. ASSUME NEW m \in T, NEW n \in T, owner[m] = owner[n] PROVE m = n
          <5>1. m.tx = n.tx /\ m \in mined /\ n \in mined
            BY <3>4, <4>1
          <5> QED BY <1>1, <5>1 DEF SnipeInv, ChainOK
        <4>2. owner \in [T -> W]
          BY <3>4
        <4> QED BY <4>1, <4>2 DEF Injection, IsInjective
      <3>6. Cardinality(T) <= Cardinality(W)
        <4> HIDE DEF T, W, owner
        <4> QED BY <2>1, <3>5, FS_Injection
      <3>7. MapThenSumSet(SpentOf, T) <= Cardinality(T) * b /\ MapThenSumSet(SpentOf, T) \in Nat
        <4> HIDE DEF T, b
        <4> QED BY <2>1, <3>3, <3>4, SpendingIsBounded
      <3>8. Cardinality(T) * b <= Cardinality(W) * b
        <4> HIDE DEF T, W, b
        <4> QED BY <2>1, <3>3, <3>6, FewerTimes
      <3>9. Cardinality(W) * b <= SpendCap
        BY <3>2
      <3> DEFINE total == MapThenSumSet(SpentOf, T)
                 few == Cardinality(T) * b
                 all == Cardinality(W) * b
      <3>10. total \in Nat /\ few \in Nat /\ all \in Nat
        BY <2>1, <3>3, <3>7
      <3>11. total <= few /\ few <= all /\ all <= SpendCap
        BY <3>7, <3>8, <3>9
      <3> HIDE DEF total, few, all
      <3>12. total <= SpendCap
        BY <2>2, <3>10, <3>11
      <3> QED BY <3>12 DEF total
    <2> QED BY <2>3, <2>4
  <1> QED BY <1>1, SnipeInvHolds, PTL

-----------------------------------------------------------------------------
(* Funding and withdrawing *)

(***************************************************************************)
(* The inductive invariant.  While a transfer is under way every attempt   *)
(* has the nonce, the sender and the payees the transfer was begun with,   *)
(* and the balance read for it pays the most expensive one.  Of all that a *)
(* node holds or a block has, two fundings of one wallet have one nonce,   *)
(* and nothing pays a wallet that was neither told of nor is being paid.   *)
(* A node holds nothing of an account that no other program spends from,   *)
(* but the attempts under way and what a withdrawal gave up on.            *)
(***************************************************************************)
Underway == doing \in {"send", "receipt"}
Sent == pool \cup Landed
Attempt ==
  [what: {command}, from: {Sender}, nonce: {sub.nonce}, to: {Paid}, value: Nat, most: Nat]

CommandIsTyped ==
  /\ command \in {"fund", "withdraw"} /\ route \in {"batch", "direct"}
  /\ command = "withdraw" => route = "direct"
  /\ doing = "plan" => command = "withdraw"
  /\ recipient \in Recipients
  /\ doing \in {"start", "quote", "plan", "confirm", "submit", "send", "receipt"} \cup Over
  /\ DOMAIN summary \subseteq Wallets
  /\ doing \in {"start", "quote"} \/ (Batch /\ doing \notin Over) => DOMAIN summary = {}
  /\ doing \in {"confirm", "submit", "send", "receipt"} => Left # {}
  /\ ~Underway => bumps = 0 /\ submitted = << >>

Begun ==
  /\ sub.nonce \in Nat /\ sub.base \in Bases /\ sub.coins \in Nat
  /\ attempt \in 1..Attempts /\ bumps \in Nat /\ bumps < attempt
  /\ submitted \in Seq(Attempt)

IsFunded ==
  /\ command = "fund" =>
       Amount * Cardinality(Paid) + TransferGas * MaximumFee(sub.base) <= sub.coins
  /\ command = "withdraw" => MaximumFee(sub.base) < sub.coins
  /\ Sender \notin others =>
       /\ sub.nonce <= nonce[Sender]
       /\ nonce[Sender] = sub.nonce => sub.coins <= coins[Sender]

FundingOK(tx) ==
  /\ command = "fund" /\ tx.from = Payer /\ tx.value = Amount * Cardinality(tx.to)
  /\ doing \notin Over => tx.to \subseteq DOMAIN summary \cup (IF Underway THEN Paid ELSE {})
  /\ Underway /\ tx.to \cap Paid # {} => tx.nonce = sub.nonce /\ submitted # << >>

FundingsAreOurs == \A tx \in Sent : tx.what = "fund" => FundingOK(tx)

OneNonceForAWallet ==
  \A tx, other \in Sent :
    tx.what = "fund" /\ other.what = "fund" /\ tx.to \cap other.to # {} => tx.nonce = other.nonce

HeldOK(tx) ==
  \/ tx.from \in others \/ doing \in Over
  \/ command = "withdraw" /\ tx.from \in DOMAIN summary
  \/ Underway /\ tx.from = Sender /\ tx.nonce = sub.nonce /\ submitted # << >>

NothingElseIsHeld == \A tx \in pool : HeldOK(tx)

ToldOK(w) ==
  /\ summary[w].what = "fund" => \E m \in mined : m.ok /\ m.tx.what = "fund" /\ w \in m.tx.to
  /\ summary[w].what \in {"reverted", "limited"} =>
       /\ \A tx \in pool : tx.what = "fund" => w \notin tx.to
       /\ \A m \in mined : m.tx.what = "fund" /\ w \in m.tx.to => ~m.ok
  /\ summary[w].what = "withdraw" =>
       \E m \in mined : /\ m.ok /\ m.tx.from = w /\ m.tx.what = "withdraw"
                        /\ m.tx.value = summary[w].value

ToldIsTrue == \A w \in DOMAIN summary : ToldOK(w)

FundsInv ==
  /\ ChainOK /\ CommandIsTyped /\ (Underway => Begun /\ IsFunded)
  /\ FundingsAreOurs /\ OneNonceForAWallet /\ NothingElseIsHeld /\ ToldIsTrue

(* The wallets are numbered, and there is one; the first that is left is   *)
(* the next.                                                               *)
LEMMA WalletsAreThere ==
  /\ Wallets \in SUBSET Nat /\ Wallets \in SUBSET Accounts /\ Wallets # {}
  /\ IsFiniteSet(Wallets) /\ Payer \in Accounts
  /\ Payer \notin Wallets
  <1>1. /\ Accounts \subseteq Nat /\ Payer \in Accounts /\ Accounts # {Payer}
        /\ IsFiniteSet(Accounts)
    BY NativeFundsAssumption, AccountChainAssumption
  <1> QED BY <1>1, FS_Subset DEF Wallets

LEMMA NextIsLeft ==
  ASSUME Left # {}
  PROVE  NextWallet \in Left /\ NextWallet \in Wallets
  <1>1. Left \in SUBSET Nat
    BY WalletsAreThere DEF Left
  <1>2. First(Left) \in Left
    BY <1>1, FirstIsThere
  <1> QED BY <1>2 DEF First, NextWallet, Left

(* Who sends a transfer and who is paid.                                   *)
LEMMA PartiesAreThere ==
  ASSUME CommandIsTyped, Left # {}, doing \notin Over
  PROVE  /\ Sender \in Accounts
         /\ command = "fund" => Sender = Payer /\ Paid \subseteq Left
         /\ command = "withdraw" => Sender = NextWallet /\ ~Batch /\ Paid = {recipient}
         /\ IsFiniteSet(Paid) /\ Cardinality(Paid) \in Nat /\ Cardinality(Paid) >= 1
         /\ TransferGas \in Nat /\ (~Batch => TransferGas = 1 /\ Cardinality(Paid) = 1)
         /\ Batch => Paid = Wallets /\ Left = Wallets
         /\ ~Batch /\ command = "fund" => Paid = {NextWallet}
  <1>1. NextWallet \in Left /\ NextWallet \in Wallets
    BY NextIsLeft
  <1>2. Sender \in Accounts
    BY <1>1, WalletsAreThere DEF Sender
  <1>3. Batch => Left = Wallets
    BY DEF CommandIsTyped, Left
  <1>4. /\ Batch => Paid = Wallets /\ command = "fund"
        /\ ~Batch /\ command = "fund" => Paid = {NextWallet}
        /\ command # "fund" => Paid = {recipient}
        /\ command \in {"fund", "withdraw"}
    BY DEF Paid, Batch, CommandIsTyped
  <1>5. IsFiniteSet(Paid) /\ Cardinality(Paid) \in Nat /\ Cardinality(Paid) >= 1
        /\ (~Batch => Cardinality(Paid) = 1)
    <2>1. CASE Batch
      <3>1. /\ IsFiniteSet(Wallets) /\ Cardinality(Wallets) \in Nat
            /\ Cardinality(Wallets) # 0
        BY WalletsAreThere, FS_CardinalityType, FS_EmptySet
      <3> QED BY <1>4, <2>1, <3>1
    <2>2. CASE ~Batch
      <3>1. PICK x : Paid = {x}
        BY <1>4, <2>2
      <3>2. IsFiniteSet({x}) /\ Cardinality({x}) = 1
        BY FS_Singleton
      <3> QED BY <3>1, <3>2
    <2> QED BY <2>1, <2>2
  <1>6. TransferGas \in Nat /\ (~Batch => TransferGas = 1)
    BY NativeFundsAssumption DEF TransferGas
  <1> QED BY <1>1, <1>2, <1>3, <1>4, <1>5, <1>6 DEF Sender, Batch

(* What is read alone of the run, and stays when the run does.             *)
LEMMA SameRun ==
  ASSUME UNCHANGED <<command, route, recipient, summary>>
  PROVE  /\ Left' = Left /\ NextWallet' = NextWallet /\ Batch' = Batch /\ Sender' = Sender
         /\ Paid' = Paid /\ TransferGas' = TransferGas
  <1>1. Left' = Left /\ Batch' = Batch
    BY DEF Left, Batch
  <1>2. NextWallet' = NextWallet
    BY <1>1 DEF NextWallet
  <1> QED BY <1>1, <1>2 DEF Sender, Paid, TransferGas

LEMMA InitFunds ==
  ASSUME FundsInit
  PROVE  FundsInv
  <1>1. ChainOK
    BY InitChain, AccountChainAssumption DEF FundsInit
  <1>2. DOMAIN summary = {} /\ Left # {}
    BY WalletsAreThere DEF FundsInit, Unset, Left
  <1>3. CommandIsTyped
    BY <1>2 DEF FundsInit, CommandIsTyped, Underway, Over, Batch
  <1>4. ~Underway
    BY DEF FundsInit, Underway
  <1>5. pool = {} /\ Sent = {}
    BY DEF FundsInit, ChainInit, Sent, Landed
  <1> QED BY <1>1, <1>2, <1>3, <1>4, <1>5
          DEF FundsInv, FundingsAreOurs, OneNonceForAWallet, NothingElseIsHeld, ToldIsTrue

(* A command that stops sends nothing more.                                *)
LEMMA StopKeeps ==
  ASSUME FundsInv, NEW how \in Over, Stop(how),
         UNCHANGED <<chain, command, route, recipient, summary, others>>
  PROVE  FundsInv'
  <1>1. ChainOK'
    BY ChainStays DEF FundsInv
  <1>2. Sent' = Sent /\ ~Underway' /\ doing' \in Over /\ bumps' = 0 /\ submitted' = << >>
    BY DEF Sent, Landed, chain, Stop, Underway, Over
  <1>3. CommandIsTyped'
    BY <1>2, SameRun DEF FundsInv, CommandIsTyped, Over
  <1>4. ASSUME NEW tx, FundingOK(tx) PROVE FundingOK(tx)'
    BY <1>2, <1>4 DEF FundingOK
  <1>5. FundingsAreOurs' /\ OneNonceForAWallet'
    BY <1>2, <1>4 DEF FundsInv, FundingsAreOurs, OneNonceForAWallet
  <1>6. NothingElseIsHeld'
    BY <1>2 DEF NothingElseIsHeld, HeldOK
  <1>7. ToldIsTrue'
    BY DEF FundsInv, ToldIsTrue, ToldOK, chain
  <1> QED BY <1>1, <1>2, <1>3, <1>5, <1>6, <1>7 DEF FundsInv

(* Before a transfer is begun nothing is sent; what is planned may skip a  *)
(* wallet.                                                                 *)
LEMMA PreparesKeeps ==
  ASSUME FundsInv, doing \notin Over, ~Underway, ~Underway', CommandIsTyped',
         UNCHANGED <<chain, command, others>>,
         DOMAIN summary \subseteq DOMAIN summary',
         \A w \in DOMAIN summary : summary'[w] = summary[w],
         \A w \in DOMAIN summary' : w \notin DOMAIN summary => summary'[w].what = "skipped"
  PROVE  FundsInv'
  <1>1. ChainOK' /\ Sent' = Sent /\ pool' = pool /\ mined' = mined
    BY ChainStays DEF FundsInv, Sent, Landed, chain
  <1>2. ASSUME NEW tx, FundingOK(tx) PROVE FundingOK(tx)'
    BY <1>2 DEF FundingOK
  <1>3. FundingsAreOurs' /\ OneNonceForAWallet'
    BY <1>1, <1>2 DEF FundsInv, FundingsAreOurs, OneNonceForAWallet
  <1>4. NothingElseIsHeld'
    BY <1>1 DEF FundsInv, NothingElseIsHeld, HeldOK
  <1>5. ToldIsTrue'
    <2> SUFFICES ASSUME NEW w \in DOMAIN summary' PROVE ToldOK(w)'
      BY DEF ToldIsTrue
    <2>1. CASE w \in DOMAIN summary
      BY <1>1, <2>1 DEF FundsInv, ToldIsTrue, ToldOK
    <2>2. CASE w \notin DOMAIN summary
      BY <2>2 DEF ToldOK
    <2> QED BY <2>1, <2>2
  <1> QED BY <1>1, <1>3, <1>4, <1>5 DEF FundsInv

(* One wallet is told, or with Multicall3 all: what it is told is what the *)
(* blocks say, and nothing more can change it.  A withdrawal that is given *)
(* up may leave its last attempt with a node.                              *)
LEMMA TellKeeps ==
  ASSUME FundsInv, doing \in {"submit", "send", "receipt"}, NEW told, Tell(told),
         UNCHANGED <<nonce, coins, mined, command, route, recipient, others>>, ChainOK',
         pool \subseteq pool', pool' \subseteq pool \cup {Transaction},
         pool' = pool \/ command = "withdraw",
         told.what = "fund" =>
           /\ command = "fund"
           /\ \E m \in mined : m.ok /\ m.tx.what = "fund" /\ m.tx.to = Paid,
         told.what \in {"reverted", "limited"} =>
           /\ command = "fund"
           /\ \A tx \in pool : tx.what = "fund" => tx.to \cap Paid = {}
           /\ \A m \in mined : m.tx.what = "fund" /\ m.tx.to \cap Paid # {} => ~m.ok,
         told.what = "withdraw" =>
           /\ command = "withdraw"
           /\ \E m \in mined : /\ m.ok /\ m.tx.from = Sender /\ m.tx.what = "withdraw"
                               /\ m.tx.value = told.value,
         command = "fund" => \A tx \in pool : tx.from \in others \/ ~Underway \/ tx.from # Sender
                                              \/ tx.nonce # sub.nonce \/ submitted = << >>
  PROVE  FundsInv'
  <1> DEFINE of == IF Batch THEN Wallets ELSE {NextWallet}
  <1>1. CommandIsTyped /\ Left # {} /\ doing \notin Over
    BY DEF FundsInv, CommandIsTyped, Over
  <1>2. /\ Sender \in Accounts
        /\ command = "fund" => Sender = Payer /\ Paid \subseteq Left
        /\ command = "withdraw" => Sender = NextWallet /\ ~Batch
        /\ Batch => Paid = Wallets /\ Left = Wallets
        /\ ~Batch /\ command = "fund" => Paid = {NextWallet}
        /\ NextWallet \in Left /\ NextWallet \in Wallets
    BY <1>1, PartiesAreThere, NextIsLeft
  <1>3. /\ of \subseteq Left /\ of \subseteq Wallets
        /\ command = "fund" => of = Paid
        /\ command = "withdraw" => of = {Sender}
    BY <1>2 DEF Batch
  <1>4. /\ DOMAIN summary' = of \cup DOMAIN summary
        /\ \A w \in of : summary'[w] = told
        /\ \A w \in DOMAIN summary : w \notin of => summary'[w] = summary[w]
    BY DEF Tell, With
  <1>5. /\ bumps' = 0 /\ submitted' = << >>
        /\ IF of = Left THEN doing' = "done" ELSE doing' = "submit"
    BY DEF Tell
  <1>6. of \cap DOMAIN summary = {}
    BY <1>3 DEF Left
  <1> HIDE DEF of
  <1>7. ~Underway' /\ Batch' = Batch /\ doing' \in {"done", "submit"}
    BY <1>5 DEF Underway, Batch
  <1>8. CommandIsTyped'
    <2>1. Left' = Left \ of
      BY <1>4 DEF Left
    <2>2. doing' = "submit" => Left' # {} /\ ~Batch
      BY <1>2, <1>3, <1>5, <2>1 DEF of
    <2> QED BY <1>1, <1>3, <1>4, <1>5, <1>7, <2>2 DEF CommandIsTyped, Over
  <1>9. \A tx \in Sent' : tx.what = "fund" => tx \in Sent
    <2>1. pool' \subseteq pool \cup {Transaction} /\ mined' = mined
      OBVIOUS
    <2>2. command = "withdraw" => Transaction.what = "withdraw"
      BY DEF Transaction
    <2> QED BY <2>1, <2>2 DEF Sent, Landed
  <1>10. ASSUME NEW tx \in Sent', tx.what = "fund" PROVE FundingOK(tx)'
    <2>1. FundingOK(tx)
      BY <1>9, <1>10 DEF FundsInv, FundingsAreOurs
    <2>2. tx.to \subseteq DOMAIN summary'
      BY <1>1, <1>3, <1>4, <2>1 DEF FundingOK
    <2> QED BY <1>7, <2>1, <2>2 DEF FundingOK
  <1>11. FundingsAreOurs' /\ OneNonceForAWallet'
    BY <1>9, <1>10 DEF FundsInv, FundingsAreOurs, OneNonceForAWallet
  <1>12. ASSUME NEW tx \in pool' PROVE HeldOK(tx)'
    <2>1. CASE tx \in pool
      <3>1. HeldOK(tx)
        BY <2>1 DEF FundsInv, NothingElseIsHeld
      <3>2. CASE tx.from \in others
        BY <3>2 DEF HeldOK
      <3>3. CASE command = "withdraw" /\ tx.from \in DOMAIN summary
        BY <1>4, <3>3 DEF HeldOK
      <3>4. CASE Underway /\ tx.from = Sender /\ tx.nonce = sub.nonce /\ submitted # << >>
        BY <1>1, <1>3, <1>4, <2>1, <3>4 DEF HeldOK, CommandIsTyped
      <3> QED BY <1>1, <3>1, <3>2, <3>3, <3>4 DEF HeldOK
    <2>2. CASE tx \notin pool
      <3>1. command = "withdraw" /\ tx.from = Sender
        BY <2>2 DEF Transaction
      <3> QED BY <1>3, <1>4, <3>1 DEF HeldOK
    <2> QED BY <2>1, <2>2
  <1>13. ASSUME NEW w \in DOMAIN summary' PROVE ToldOK(w)'
    <2>1. CASE w \in of
      <3>1. summary'[w] = told
        BY <1>4, <2>1
      <3>2. told.what = "fund" => \E m \in mined : m.ok /\ m.tx.what = "fund" /\ w \in m.tx.to
        BY <1>3, <2>1
      <3>3. told.what \in {"reverted", "limited"} =>
              /\ \A tx \in pool' : tx.what = "fund" => w \notin tx.to
              /\ \A m \in mined : m.tx.what = "fund" /\ w \in m.tx.to => ~m.ok
        <4> SUFFICES ASSUME told.what \in {"reverted", "limited"}
                     PROVE  /\ \A tx \in pool' : tx.what = "fund" => w \notin tx.to
                            /\ \A m \in mined : m.tx.what = "fund" /\ w \in m.tx.to => ~m.ok
          OBVIOUS
        <4>1. command = "fund" /\ w \in Paid /\ pool' = pool
          BY <1>3, <2>1
        <4> QED BY <4>1
      <3>4. told.what = "withdraw" =>
              \E m \in mined : /\ m.ok /\ m.tx.from = w /\ m.tx.what = "withdraw"
                               /\ m.tx.value = told.value
        BY <1>3, <2>1
      <3> QED BY <3>1, <3>2, <3>3, <3>4 DEF ToldOK
    <2>2. CASE w \notin of
      <3>1. w \in DOMAIN summary /\ summary'[w] = summary[w] /\ ToldOK(w)
        BY <1>4, <2>2 DEF FundsInv, ToldIsTrue
      <3>2. \A tx \in pool' : tx.what = "fund" => tx \in pool
        BY DEF Transaction
      <3> QED BY <3>1, <3>2 DEF ToldOK
    <2> QED BY <2>1, <2>2
  <1>14. NothingElseIsHeld' /\ ToldIsTrue'
    BY <1>12, <1>13 DEF NothingElseIsHeld, ToldIsTrue
  <1> QED BY <1>7, <1>8, <1>11, <1>14 DEF FundsInv

LEMMA DearerTimes ==
  ASSUME NEW m \in Nat, NEW n \in Nat, m <= n, NEW b \in Nat
  PROVE  b * m \in Nat /\ b * n \in Nat /\ b * m <= b * n
  <1>1. b * m = m * b /\ b * n = n * b /\ m * b \in Nat /\ n * b \in Nat
    OBVIOUS
  <1>2. m * b <= n * b
    BY FewerTimes
  <1> QED BY <1>1, <1>2

(* Of an attempt, the value is positive and with the fee within what the   *)
(* transfer was begun with.                                                *)
LEMMA AttemptIsPaid ==
  ASSUME FundsInv, Underway
  PROVE  /\ IsTransaction(Transaction) /\ Transaction \in Attempt
         /\ Transaction.what = command /\ Transaction.from = Sender
         /\ Transaction.nonce = sub.nonce /\ Transaction.to = Paid
         /\ Transaction.value > 0 /\ Cost(Transaction) <= sub.coins
         /\ command = "fund" => Transaction.value = Amount * Cardinality(Paid)
  <1>1. CommandIsTyped /\ Begun /\ IsFunded /\ Left # {} /\ doing \notin Over
    BY DEF FundsInv, Underway, CommandIsTyped, Over
  <1>2. /\ Sender \in Accounts
        /\ command = "withdraw" => ~Batch
        /\ IsFiniteSet(Paid) /\ Cardinality(Paid) \in Nat /\ Cardinality(Paid) >= 1
        /\ TransferGas \in Nat /\ (~Batch => TransferGas = 1)
    BY <1>1, PartiesAreThere
  <1>3. /\ sub.base \in Nat /\ bumps \in Nat /\ Attempts \in Nat /\ bumps <= Attempts - 1
        /\ Amount \in Nat \ {0} /\ sub.nonce \in Nat /\ sub.coins \in Nat
    <2>1. /\ sub.base \in Bases /\ bumps \in Nat /\ attempt \in 1..Attempts /\ bumps < attempt
          /\ sub.nonce \in Nat /\ sub.coins \in Nat
      BY <1>1 DEF Begun
    <2>2. Attempts \in Nat /\ Amount \in Nat \ {0} /\ Bases \subseteq Nat
      BY NativeFundsAssumption
    <2>3. attempt \in Int /\ attempt <= Attempts
      BY <2>1, <2>2
    <2>4. bumps <= Attempts - 1
      BY <2>1, <2>2, <2>3
    <2> QED BY <2>1, <2>2, <2>4
  <1> DEFINE fee == FeeAt(sub.base, bumps)
             dear == MaximumFee(sub.base)
             signedFee == TransferGas * fee
             share == Amount * Cardinality(Paid)
  <1>4. fee \in Nat /\ dear \in Nat /\ fee <= dear
    BY <1>3 DEF FeeAt, MaximumFee
  <1>5. share \in Nat /\ share > 0
    <2> DEFINE c == Cardinality(Paid)
    <2>1. c \in Nat /\ 1 <= c /\ Amount \in Nat
      BY <1>2, <1>3
    <2> HIDE DEF c
    <2>2. Amount * 1 <= Amount * c /\ Amount * c \in Nat
      BY <2>1, DearerTimes
    <2>3. Amount * 1 = Amount /\ Amount > 0
      BY <1>3
    <2> DEFINE n == Amount * c
    <2> HIDE DEF n
    <2>4. n \in Nat /\ Amount <= n
      BY <2>2, <2>3 DEF n
    <2>5. n > 0
      BY <1>3, <2>4
    <2> QED BY <2>4, <2>5 DEF n, c
  <1>6. signedFee \in Nat /\ signedFee <= TransferGas * dear
    <2> HIDE DEF fee, dear
    <2> QED BY <1>2, <1>4, DearerTimes
  <1>7. command = "withdraw" => signedFee = fee
    <2> HIDE DEF fee
    <2> QED BY <1>2, <1>4
  <1>8. Transaction = [what |-> command, from |-> Sender, nonce |-> sub.nonce, to |-> Paid,
                       value |-> Value(signedFee), most |-> signedFee]
    BY DEF Transaction
  <1>9. /\ Value(signedFee) \in Nat /\ Value(signedFee) > 0
        /\ Value(signedFee) + signedFee <= sub.coins
        /\ command = "fund" => Value(signedFee) = share
    <2>1. CASE command = "withdraw"
      <3>1. Value(signedFee) = sub.coins - signedFee /\ dear < sub.coins
        BY <1>1, <2>1 DEF Value, IsFunded
      <3> DEFINE value == Value(signedFee)
      <3> HIDE DEF signedFee, fee, dear, value
      <3>2. value = sub.coins - signedFee /\ signedFee <= dear /\ dear < sub.coins
        BY <1>4, <1>7, <2>1, <3>1 DEF value
      <3>3. value \in Nat /\ value > 0 /\ value + signedFee <= sub.coins
        BY <1>3, <1>4, <1>6, <3>2
      <3> QED BY <2>1, <3>3 DEF value
    <2>2. CASE command = "fund"
      <3>1. Value(signedFee) = share /\ share + TransferGas * dear <= sub.coins
        BY <1>1, <2>2 DEF Value, IsFunded
      <3> DEFINE gas == TransferGas * dear
                 value == Value(signedFee)
      <3>2. gas \in Nat
        <4> HIDE DEF dear
        <4> QED BY <1>2, <1>4
      <3> HIDE DEF signedFee, share, gas, value
      <3>3. signedFee <= gas /\ value = share /\ share + gas <= sub.coins
        BY <1>6, <3>1 DEF gas, value
      <3>4. value \in Nat /\ value > 0 /\ value + signedFee <= sub.coins
        BY <1>3, <1>5, <1>6, <3>2, <3>3
      <3> QED BY <3>3, <3>4 DEF value
    <2> QED BY <1>1, <2>1, <2>2 DEF CommandIsTyped
  <1> HIDE DEF signedFee
  <1> DEFINE value == Value(signedFee)
  <1>10. /\ value \in Nat /\ value > 0 /\ value + signedFee <= sub.coins
         /\ command = "fund" => value = share
    BY <1>9
  <1>11. Transaction = [what |-> command, from |-> Sender, nonce |-> sub.nonce, to |-> Paid,
                        value |-> value, most |-> signedFee]
    BY <1>8
  <1> HIDE DEF value
  <1>12. /\ Transaction.what = command /\ Transaction.from = Sender /\ Transaction.most = signedFee
         /\ Transaction.nonce = sub.nonce /\ Transaction.to = Paid /\ Transaction.value = value
    BY <1>11
  <1>13. Transaction \in Attempt
    BY <1>6, <1>10, <1>11 DEF Attempt
  <1> QED BY <1>2, <1>3, <1>6, <1>10, <1>12, <1>13 DEF IsTransaction, Cost

(* What is read just before a transfer pays for its last attempt; no node  *)
(* holds anything of the sender then, or another program spends from it.   *)
LEMMA SubmitKeeps ==
  ASSUME FundsInv, doing = "submit", NEW base \in Bases, NEW view \in Views(Sender),
         Submit(view, base), UNCHANGED <<chain, command, route, recipient, others>>,
         command = "fund" =>
           Amount * Cardinality(Paid) + TransferGas * MaximumFee(base) <= view.coins,
         command = "withdraw" => MaximumFee(base) < view.coins
  PROVE  FundsInv'
  <1>1. /\ ChainOK /\ CommandIsTyped /\ Left # {} /\ doing \notin Over /\ ~Underway
        /\ bumps = 0 /\ submitted = << >>
    BY DEF FundsInv, Underway, CommandIsTyped, Over
  <1>2. /\ ChainOK' /\ Sent' = Sent /\ pool' = pool /\ mined' = mined /\ nonce' = nonce
        /\ coins' = coins
    BY <1>1, ChainStays DEF Sent, Landed, chain
  <1>3. /\ Left' = Left /\ Batch' = Batch /\ Sender' = Sender /\ Paid' = Paid
        /\ TransferGas' = TransferGas
    BY SameRun DEF Submit
  <1>4. /\ Sender \in Accounts
        /\ command = "fund" => Sender = Payer /\ Paid \subseteq Left
        /\ command = "withdraw" => Sender = NextWallet
        /\ NextWallet \in Left
    BY <1>1, PartiesAreThere, NextIsLeft
  <1>5. /\ view.nonce \in Nat /\ view.nonce >= nonce[Sender]
        /\ view.coins \in Nat /\ view.coins <= coins[Sender]
        /\ (\A tx \in pool : tx.from # Sender) =>
              view.nonce = nonce[Sender] /\ view.coins = coins[Sender]
    BY <1>1, <1>4, ViewsRead
  <1>6. /\ sub'.nonce = view.nonce /\ sub'.base = base /\ sub'.coins = view.coins
        /\ attempt' = 1 /\ bumps' = 0 /\ submitted' = << >> /\ doing' = "send"
        /\ summary' = summary
    BY <1>1 DEF Submit
  <1>7. CommandIsTyped'
    BY <1>1, <1>3, <1>6 DEF CommandIsTyped, Underway, Over
  <1>8. Begun'
    <2>1. << >> \in Seq(Attempt') /\ 1 \in 1..Attempts
      BY NativeFundsAssumption
    <2> QED BY <1>5, <1>6, <2>1 DEF Begun
  <1>9. Sender \notin others => view.nonce = nonce[Sender] /\ view.coins = coins[Sender]
    <2> SUFFICES ASSUME Sender \notin others, NEW tx \in pool, tx.from = Sender PROVE FALSE
      BY <1>5
    <2>1. HeldOK(tx)
      BY DEF FundsInv, NothingElseIsHeld
    <2> QED BY <1>1, <1>4, <2>1 DEF HeldOK, Left, CommandIsTyped
  <1>10. IsFunded'
    <2>1. MaximumFee(sub.base)' = MaximumFee(base)
      BY <1>6 DEF MaximumFee, FeeAt
    <2>2. Sender \notin others => sub'.nonce <= nonce'[Sender] /\ sub'.coins <= coins'[Sender]
      BY <1>1, <1>2, <1>4, <1>5, <1>6, <1>9 DEF ChainOK
    <2> QED BY <1>2, <1>3, <1>6, <2>1, <2>2 DEF IsFunded
  <1>11. ASSUME NEW tx \in Sent, tx.what = "fund" PROVE FundingOK(tx)'
    <2>1. FundingOK(tx)
      BY <1>11 DEF FundsInv, FundingsAreOurs
    <2>2. tx.to \cap Paid = {}
      BY <1>1, <1>4, <2>1 DEF FundingOK, Left
    <2> QED BY <1>1, <1>3, <1>6, <2>1, <2>2 DEF FundingOK
  <1>12. FundingsAreOurs' /\ OneNonceForAWallet'
    BY <1>2, <1>11 DEF FundsInv, FundingsAreOurs, OneNonceForAWallet
  <1>13. NothingElseIsHeld'
    BY <1>1, <1>2, <1>6 DEF FundsInv, NothingElseIsHeld, HeldOK
  <1>14. ToldIsTrue'
    BY <1>2, <1>6 DEF FundsInv, ToldIsTrue, ToldOK
  <1> QED BY <1>2, <1>7, <1>8, <1>10, <1>12, <1>13, <1>14 DEF FundsInv

(* An attempt a node takes has the nonce of all that pay the same wallets, *)
(* and pays none that was told.                                            *)
LEMMA OneMoreHeld ==
  ASSUME FundsInv, Underway, pool \subseteq pool', pool' \subseteq pool \cup {Transaction},
         UNCHANGED <<mined, summary>>
  PROVE  /\ \A tx \in Sent' : tx.what = "fund" =>
              tx \in Sent \/ (tx = Transaction /\ command = "fund")
         /\ OneNonceForAWallet' /\ ToldIsTrue'
  <1>1. CommandIsTyped /\ Left # {} /\ doing \notin Over
    BY DEF FundsInv, Underway, CommandIsTyped, Over
  <1>2. /\ Transaction.what = command /\ Transaction.nonce = sub.nonce /\ Transaction.to = Paid
    BY AttemptIsPaid
  <1>3. command = "fund" => Paid \subseteq Left
    BY <1>1, PartiesAreThere
  <1>4. \A tx \in Sent' : tx.what = "fund" =>
          tx \in Sent \/ (tx = Transaction /\ command = "fund")
    BY <1>2 DEF Sent, Landed
  <1>5. ASSUME NEW tx \in Sent, tx.what = "fund", tx.to \cap Paid # {} PROVE tx.nonce = sub.nonce
    <2>1. FundingOK(tx)
      BY <1>5 DEF FundsInv, FundingsAreOurs
    <2> QED BY <1>5, <2>1 DEF FundingOK
  <1>6. OneNonceForAWallet'
    <2> SUFFICES ASSUME NEW tx \in Sent', NEW other \in Sent', tx.what = "fund",
                        other.what = "fund", tx.to \cap other.to # {}
                 PROVE  tx.nonce = other.nonce
      BY DEF OneNonceForAWallet
    <2>1. CASE tx \in Sent /\ other \in Sent
      BY <2>1 DEF FundsInv, OneNonceForAWallet
    <2>2. CASE tx = Transaction /\ other \in Sent
      <3>1. other.to \cap Paid # {}
        BY <1>2, <2>2
      <3> QED BY <1>2, <1>5, <2>2, <3>1
    <2>3. CASE tx \in Sent /\ other = Transaction
      BY <1>2, <1>5, <2>3
    <2>4. CASE tx = Transaction /\ other = Transaction
      BY <2>4
    <2> QED BY <1>4, <2>1, <2>2, <2>3, <2>4
  <1>7. ASSUME NEW w \in DOMAIN summary' PROVE ToldOK(w)'
    <2>1. w \in DOMAIN summary /\ summary'[w] = summary[w] /\ ToldOK(w)
      BY DEF FundsInv, ToldIsTrue
    <2>2. \A tx \in pool' : tx.what = "fund" /\ w \in tx.to => tx \in pool
      BY <1>2, <1>3, <2>1 DEF Left
    <2> QED BY <2>1, <2>2 DEF ToldOK
  <1> QED BY <1>4, <1>6, <1>7 DEF ToldIsTrue

(* --fund stops with an attempt that a node may have taken.                *)
LEMMA StopUncertainKeeps ==
  ASSUME FundsInv, Underway, Stop("broken"), pool \subseteq pool',
         pool' \subseteq pool \cup {Transaction}, ChainOK',
         UNCHANGED <<mined, command, route, recipient, summary, others>>
  PROVE  FundsInv'
  <1>1. /\ \A tx \in Sent' : tx.what = "fund" =>
             tx \in Sent \/ (tx = Transaction /\ command = "fund")
        /\ OneNonceForAWallet' /\ ToldIsTrue'
    BY OneMoreHeld
  <1>2. CommandIsTyped /\ Left # {} /\ doing \notin Over
    BY DEF FundsInv, Underway, CommandIsTyped, Over
  <1>3. ~Underway' /\ doing' \in Over /\ bumps' = 0 /\ submitted' = << >>
    BY DEF Stop, Underway, Over
  <1>4. CommandIsTyped'
    BY <1>2, <1>3, SameRun DEF CommandIsTyped, Over
  <1>5. ASSUME NEW tx \in Sent', tx.what = "fund" PROVE FundingOK(tx)'
    <2>1. command = "fund" /\ tx.from = Payer /\ tx.value = Amount * Cardinality(tx.to)
      <3>1. CASE tx \in Sent
        BY <1>5, <3>1 DEF FundsInv, FundingsAreOurs, FundingOK
      <3>2. CASE tx = Transaction /\ command = "fund"
        BY <1>2, <3>2, AttemptIsPaid, PartiesAreThere
      <3> QED BY <1>1, <1>5, <3>1, <3>2
    <2> QED BY <1>3, <2>1 DEF FundingOK
  <1>6. NothingElseIsHeld'
    BY <1>3 DEF NothingElseIsHeld, HeldOK
  <1> QED BY <1>1, <1>3, <1>4, <1>5, <1>6 DEF FundsInv, FundingsAreOurs

(* A node takes an attempt.                                                *)
LEMMA AttemptTakenKeeps ==
  ASSUME FundsInv, doing = "send", Taken,
         UNCHANGED <<nonce, coins, mined, command, route, recipient, others>>
  PROVE  FundsInv'
  <1>1. /\ CommandIsTyped /\ Left # {} /\ doing \notin Over /\ ChainOK /\ Begun /\ IsFunded
        /\ Underway
    BY DEF FundsInv, Underway, CommandIsTyped, Over
  <1>2. /\ IsTransaction(Transaction) /\ Transaction \in Attempt
        /\ Transaction.what = command /\ Transaction.from = Sender
        /\ Transaction.nonce = sub.nonce /\ Transaction.to = Paid
        /\ command = "fund" => Transaction.value = Amount * Cardinality(Paid)
    BY <1>1, AttemptIsPaid
  <1>3. ChainOK'
    BY <1>1, <1>2, TakenKeeps DEF Taken, Takes
  <1>4. /\ Left' = Left /\ Batch' = Batch /\ Sender' = Sender /\ Paid' = Paid
        /\ TransferGas' = TransferGas
    BY SameRun DEF Taken
  <1>5. /\ Underway' /\ doing' = "receipt" /\ UNCHANGED <<sub, attempt, bumps, summary>>
        /\ submitted' = Append(submitted, Transaction)
        /\ pool' = pool \cup {Transaction}
    BY DEF Taken, Underway
  <1>6. Attempt' = Attempt
    BY <1>4, <1>5 DEF Attempt
  <1>7. submitted' \in Seq(Attempt) /\ submitted' # << >>
    BY <1>1, <1>2, <1>5, AppendProperties DEF Begun
  <1>8. CommandIsTyped' /\ Begun' /\ IsFunded'
    <2>1. CommandIsTyped'
      BY <1>1, <1>4, <1>5 DEF CommandIsTyped, Over
    <2>2. Begun'
      BY <1>1, <1>5, <1>6, <1>7 DEF Begun
    <2>3. MaximumFee(sub.base)' = MaximumFee(sub.base)
      BY <1>5 DEF MaximumFee, FeeAt
    <2>4. IsFunded'
      BY <1>1, <1>4, <1>5, <2>3 DEF IsFunded
    <2> QED BY <2>1, <2>2, <2>4
  <1>9. /\ \A tx \in Sent' : tx.what = "fund" =>
             tx \in Sent \/ (tx = Transaction /\ command = "fund")
        /\ OneNonceForAWallet' /\ ToldIsTrue'
    BY <1>1, <1>5, OneMoreHeld
  <1>10. ASSUME NEW tx \in Sent', tx.what = "fund" PROVE FundingOK(tx)'
    <2>1. CASE tx \in Sent
      <3>1. FundingOK(tx)
        BY <1>10, <2>1 DEF FundsInv, FundingsAreOurs
      <3> QED BY <1>1, <1>4, <1>5, <1>7, <3>1 DEF FundingOK
    <2>2. CASE tx = Transaction /\ command = "fund"
      <3>1. Sender = Payer
        BY <2>2 DEF Sender
      <3>2. /\ tx.from = Payer /\ tx.value = Amount * Cardinality(tx.to) /\ tx.to = Paid
            /\ tx.nonce = sub.nonce
        BY <1>2, <2>2, <3>1
      <3> QED BY <1>4, <1>5, <1>7, <2>2, <3>2 DEF FundingOK
    <2> QED BY <1>9, <1>10, <2>1, <2>2
  <1>11. ASSUME NEW tx \in pool' PROVE HeldOK(tx)'
    <2>1. CASE tx \in pool
      BY <1>1, <1>4, <1>5, <1>7, <2>1 DEF FundsInv, NothingElseIsHeld, HeldOK
    <2>2. CASE tx = Transaction
      BY <1>2, <1>4, <1>5, <1>7, <2>2 DEF HeldOK
    <2> QED BY <1>5, <2>1, <2>2
  <1> QED BY <1>3, <1>8, <1>9, <1>10, <1>11 DEF FundsInv, FundingsAreOurs, NothingElseIsHeld

(* It is tried again: after too many requests under the same fee, after a  *)
(* receipt that did not come under a higher one.                           *)
LEMMA TriesAgainKeeps ==
  ASSUME FundsInv, Underway, Underway',
         UNCHANGED <<chain, command, route, recipient, sub, submitted, summary, others>>,
         attempt' \in 1..Attempts, bumps' \in Nat, bumps' < attempt'
  PROVE  FundsInv'
  <1>1. /\ CommandIsTyped /\ Left # {} /\ doing \notin Over /\ Begun /\ IsFunded
    BY DEF FundsInv, Underway, CommandIsTyped, Over
  <1>2. /\ ChainOK' /\ Sent' = Sent /\ pool' = pool /\ mined' = mined /\ nonce' = nonce
        /\ coins' = coins
    BY ChainStays DEF FundsInv, Sent, Landed, chain
  <1>3. /\ Left' = Left /\ Batch' = Batch /\ Sender' = Sender /\ Paid' = Paid
        /\ TransferGas' = TransferGas
    BY SameRun
  <1>4. Attempt' = Attempt /\ MaximumFee(sub.base)' = MaximumFee(sub.base)
    BY <1>3 DEF Attempt, MaximumFee, FeeAt
  <1>5. CommandIsTyped' /\ doing' \notin Over
    BY <1>1, <1>3 DEF CommandIsTyped, Underway, Over
  <1>6. Begun'
    BY <1>1, <1>4 DEF Begun
  <1>7. IsFunded'
    BY <1>1, <1>2, <1>3, <1>4 DEF IsFunded
  <1>8. \A tx : FundingOK(tx) => FundingOK(tx)'
    BY <1>1, <1>3, <1>5 DEF FundingOK
  <1>9. FundingsAreOurs' /\ OneNonceForAWallet'
    BY <1>2, <1>8 DEF FundsInv, FundingsAreOurs, OneNonceForAWallet
  <1>10. NothingElseIsHeld'
    BY <1>1, <1>2, <1>3 DEF FundsInv, NothingElseIsHeld, HeldOK
  <1>11. ToldIsTrue'
    BY <1>2 DEF FundsInv, ToldIsTrue, ToldOK
  <1> QED BY <1>2, <1>5, <1>6, <1>7, <1>9, <1>10, <1>11 DEF FundsInv

(* A receipt of any attempt uses up the nonce of all of them.              *)
LEMMA ReceiptOfAttempt ==
  ASSUME FundsInv, Underway, NEW m \in TransferReceipts
  PROVE  /\ m \in mined /\ m.tx.what = command /\ m.tx.from = Sender /\ m.tx.to = Paid
         /\ m.tx.nonce = sub.nonce
         /\ \A tx \in pool : tx.from # Sender \/ tx.nonce # sub.nonce
         /\ \A n \in mined : n.tx.from = Sender /\ n.tx.nonce = sub.nonce => n = m
  <1>1. submitted \in Seq(Attempt)
    BY DEF FundsInv, Begun
  <1>2. PICK k \in DOMAIN submitted : m.tx = submitted[k]
    BY DEF TransferReceipts
  <1>3. k \in 1..Len(submitted)
    BY <1>1, <1>2
  <1>4. m.tx \in Attempt /\ m \in mined
    BY <1>1, <1>2, <1>3, ElementOfSeq DEF TransferReceipts
  <1>5. /\ m.tx.what = command /\ m.tx.from = Sender /\ m.tx.to = Paid /\ m.tx.nonce = sub.nonce
    BY <1>4 DEF Attempt
  <1>6. sub.nonce < nonce[Sender]
    BY <1>4, <1>5 DEF FundsInv, ChainOK
  <1>7. Sender \in Accounts
    BY <1>4, <1>5 DEF FundsInv, ChainOK, IsTransaction
  <1>8. ASSUME NEW tx \in pool, tx.from = Sender, tx.nonce = sub.nonce PROVE FALSE
    <2>1. tx.nonce >= nonce[Sender] /\ tx.nonce \in Nat /\ nonce[Sender] \in Nat
      BY <1>7, <1>8 DEF FundsInv, ChainOK, IsTransaction
    <2> QED BY <1>6, <1>8, <2>1
  <1>9. \A n \in mined : n.tx.from = Sender /\ n.tx.nonce = sub.nonce => n = m
    BY <1>4, <1>5 DEF FundsInv, ChainOK
  <1> QED BY <1>4, <1>5, <1>8, <1>9

(* What has paid the wallets that are being paid.                          *)
LEMMA PayingNow ==
  ASSUME FundsInv, Underway, NEW tx \in Sent, tx.what = "fund", tx.to \cap Paid # {}
  PROVE  command = "fund" /\ tx.from = Sender /\ tx.nonce = sub.nonce /\ submitted # << >>
  <1>1. FundingOK(tx)
    BY DEF FundsInv, FundingsAreOurs
  <1> QED BY <1>1 DEF FundingOK, Sender

LEMMA ErrorKeeps ==
  ASSUME FundsInv, Underway, NEW what, Error(what),
         UNCHANGED <<chain, command, route, recipient, others>>,
         what = "limited" => submitted = << >>,
         what = "reverted" => \E m \in TransferReceipts : ~m.ok
  PROVE  FundsInv'
  <1>1. /\ doing \in {"submit", "send", "receipt"} /\ pool' = pool /\ ChainOK' /\ mined' = mined
        /\ UNCHANGED <<nonce, coins, mined, command, route, recipient, others>>
    BY ChainStays DEF FundsInv, Underway, chain
  <1>2. CASE command = "withdraw"
    <2> DEFINE told == Told("failed", 0)
    <2>1. Tell(told) /\ told.what = "failed"
      BY <1>2 DEF Error, Told
    <2> HIDE DEF told
    <2> QED BY <1>1, <1>2, <2>1, TellKeeps
  <1>3. CASE command = "fund" /\ ~Batch /\ what = "limited"
    <2> DEFINE told == Told("limited", 0)
    <2>1. Tell(told) /\ told.what = "limited"
      BY <1>3 DEF Error, Told
    <2>2. \A tx \in Sent : tx.what = "fund" => tx.to \cap Paid = {}
      BY <1>3, PayingNow
    <2>3. /\ \A tx \in pool : tx.what = "fund" => tx.to \cap Paid = {}
          /\ \A m \in mined : m.tx.what = "fund" /\ m.tx.to \cap Paid # {} => ~m.ok
      BY <2>2 DEF Sent, Landed
    <2> HIDE DEF told
    <2> QED BY <1>1, <1>3, <2>1, <2>3, TellKeeps
  <1>4. CASE command = "fund" /\ ~Batch /\ what = "reverted"
    <2> DEFINE told == Told("reverted", 0)
    <2>1. Tell(told) /\ told.what = "reverted"
      BY <1>4 DEF Error, Told
    <2>2. PICK m \in TransferReceipts : ~m.ok
      BY <1>4
    <2>3. /\ \A tx \in pool : tx.from # Sender \/ tx.nonce # sub.nonce
          /\ \A n \in mined : n.tx.from = Sender /\ n.tx.nonce = sub.nonce => n = m
      BY ReceiptOfAttempt
    <2>4. \A tx \in pool : tx.what = "fund" => tx.to \cap Paid = {}
      BY <2>3, PayingNow DEF Sent
    <2>5. \A n \in mined : n.tx.what = "fund" /\ n.tx.to \cap Paid # {} => ~n.ok
      BY <2>2, <2>3, PayingNow DEF Sent, Landed
    <2> HIDE DEF told
    <2> QED BY <1>1, <1>4, <2>1, <2>3, <2>4, <2>5, TellKeeps
  <1>5. CASE command # "withdraw" /\ ~(~Batch /\ what \in {"reverted", "limited"})
    <2>1. Stop("broken") /\ UNCHANGED summary
      BY <1>5 DEF Error
    <2> QED BY <2>1, StopKeeps DEF Over
  <1> QED BY <1>2, <1>3, <1>4, <1>5 DEF FundsInv, CommandIsTyped

LEMMA SendKeeps ==
  ASSUME FundsInv, Send
  PROVE  FundsInv'
  <1>1. /\ doing = "send" /\ Underway /\ Begun /\ ChainOK
        /\ UNCHANGED <<nonce, coins, mined, command, route, recipient, others>>
    BY DEF Send, Doing, Underway, FundsInv
  <1>2. CASE Taken
    BY <1>1, <1>2, AttemptTakenKeeps
  <1>3. CASE RateLimited
    <2>1. UNCHANGED chain
      BY <1>1, <1>3 DEF RateLimited, chain
    <2>2. CASE attempt < Attempts
      <3>1. /\ attempt' = attempt + 1
            /\ UNCHANGED <<doing, plans, sub, bumps, submitted, summary>>
        BY <1>3, <2>2 DEF RateLimited
      <3>2. attempt' \in 1..Attempts /\ bumps' \in Nat /\ bumps' < attempt' /\ Underway'
        BY <1>1, <2>2, <3>1, NativeFundsAssumption DEF Begun, Underway
      <3> QED BY <1>1, <2>1, <3>1, <3>2, TriesAgainKeeps
    <2>3. CASE ~(attempt < Attempts)
      <3>1. Error(Exhausted)
        BY <1>3, <2>3 DEF RateLimited
      <3>2. /\ Exhausted = "limited" => submitted = << >>
            /\ Exhausted # "reverted"
        BY DEF Exhausted
      <3> QED BY <1>1, <2>1, <3>1, <3>2, ErrorKeeps
    <2> QED BY <2>2, <2>3
  <1>4. CASE BroadcastUncertain
    <2>1. CASE UNCHANGED pool
      <3>1. UNCHANGED chain /\ Error("uncertain")
        BY <1>1, <1>4, <2>1 DEF BroadcastUncertain, chain
      <3> QED BY <1>1, <3>1, ErrorKeeps
    <2>2. CASE Takes(Transaction) /\ pool' = pool \cup {Transaction}
      <3>1. ChainOK'
        BY <1>1, <2>2, AttemptIsPaid, TakenKeeps DEF Takes
      <3>2. CASE command = "withdraw"
        <4> DEFINE told == Told("failed", 0)
        <4>1. Tell(told) /\ told.what = "failed"
          BY <1>4, <3>2 DEF BroadcastUncertain, Error, Told
        <4> HIDE DEF told
        <4>2. doing \in {"submit", "send", "receipt"}
          BY <1>1
        <4> QED BY <1>1, <2>2, <3>1, <3>2, <4>1, <4>2, TellKeeps
      <3>3. CASE command # "withdraw"
        <4>1. Stop("broken") /\ UNCHANGED summary
          BY <1>4, <3>3 DEF BroadcastUncertain, Error
        <4> QED BY <1>1, <2>2, <3>1, <4>1, StopUncertainKeeps
      <3> QED BY <3>2, <3>3
    <2> QED BY <1>4, <2>1, <2>2 DEF BroadcastUncertain
  <1> QED BY <1>2, <1>3, <1>4 DEF Send

LEMMA TransferReceiptKeeps ==
  ASSUME FundsInv, TransferReceipt
  PROVE  FundsInv'
  <1>1. /\ doing = "receipt" /\ Underway /\ CommandIsTyped
        /\ UNCHANGED <<chain, command, route, recipient, others>>
    BY DEF TransferReceipt, Doing, Underway, FundsInv
  <1>2. PICK m \in TransferReceipts :
          IF m.ok THEN Tell(Told(command, ConfirmedValue(m))) ELSE Error("reverted")
    BY DEF TransferReceipt
  <1>3. CASE m.ok
    <2> DEFINE told == Told(command, ConfirmedValue(m))
    <2>1. Tell(told) /\ told.what = command /\ told.value = m.tx.value
      BY <1>2, <1>3 DEF Told, ConfirmedValue
    <2> HIDE DEF told
    <2>2. /\ m \in mined /\ m.tx.what = command /\ m.tx.from = Sender /\ m.tx.to = Paid
          /\ \A tx \in pool : tx.from # Sender \/ tx.nonce # sub.nonce
      BY <1>1, ReceiptOfAttempt
    <2>3. /\ UNCHANGED <<nonce, coins, mined, command, route, recipient, others>> /\ ChainOK'
          /\ pool' = pool /\ doing \in {"submit", "send", "receipt"}
      BY <1>1, ChainStays DEF FundsInv, chain
    <2>4. command \in {"fund", "withdraw"}
      BY <1>1 DEF CommandIsTyped
    <2>5. told.what \notin {"reverted", "limited"}
      BY <2>1, <2>4
    <2>6. told.what = "fund" => command = "fund" /\ m.ok /\ m.tx.what = "fund" /\ m.tx.to = Paid
      BY <1>3, <2>1, <2>2
    <2>7. told.what = "withdraw" =>
            /\ command = "withdraw" /\ m.ok /\ m.tx.from = Sender /\ m.tx.what = "withdraw"
            /\ m.tx.value = told.value
      BY <1>3, <2>1, <2>2
    <2> QED BY <2>1, <2>2, <2>3, <2>5, <2>6, <2>7, TellKeeps
  <1>4. CASE ~m.ok
    <2>1. Error("reverted")
      BY <1>2, <1>4
    <2> QED BY <1>1, <1>4, <2>1, ErrorKeeps
  <1> QED BY <1>3, <1>4

LEMMA NoReceiptKeeps ==
  ASSUME FundsInv, NoReceipt \/ ReceiptUncertain
  PROVE  FundsInv'
  <1>1. /\ doing = "receipt" /\ Underway /\ Begun
        /\ UNCHANGED <<chain, command, route, recipient, others>>
    BY DEF NoReceipt, ReceiptUncertain, Doing, Underway, FundsInv
  <1>2. CASE NoReceipt /\ attempt < Attempts
    <2>1. /\ attempt' = attempt + 1 /\ bumps' = bumps + 1 /\ doing' = "send"
          /\ UNCHANGED <<plans, sub, submitted, summary>>
      BY <1>2 DEF NoReceipt
    <2>2. attempt' \in 1..Attempts /\ bumps' \in Nat /\ bumps' < attempt' /\ Underway'
      BY <1>1, <1>2, <2>1, NativeFundsAssumption DEF Begun, Underway
    <2> QED BY <1>1, <2>1, <2>2, TriesAgainKeeps
  <1>3. CASE Error("pending") \/ Error("uncertain")
    BY <1>1, <1>3, ErrorKeeps
  <1> QED BY <1>2, <1>3 DEF NoReceipt, ReceiptUncertain

LEMMA StartKeeps ==
  ASSUME FundsInv, (\E way \in {"batch", "direct"} : StartFund(way)) \/ StartWithdraw
  PROVE  FundsInv'
  <1>1. CommandIsTyped /\ doing = "start" /\ UNCHANGED <<chain, command, others, summary>>
    BY DEF FundsInv, StartFund, StartWithdraw, Doing
  <1>2. DOMAIN summary = {} /\ doing \notin Over /\ ~Underway
    BY <1>1 DEF CommandIsTyped, Over, Underway
  <1>3. CommandIsTyped' /\ ~Underway'
    BY <1>1, <1>2 DEF CommandIsTyped, Over, Underway, StartFund, StartWithdraw, Batch
  <1> QED BY <1>1, <1>2, <1>3, PreparesKeeps

LEMMA FailsKeeps ==
  ASSUME FundsInv, Fails
  PROVE  FundsInv'
  BY StopKeeps DEF Fails, Over

LEMMA QuoteFundingKeeps ==
  ASSUME FundsInv, NEW base, QuoteFunding(base)
  PROVE  FundsInv'
  <1>1. /\ CommandIsTyped /\ doing = "quote"
        /\ UNCHANGED <<chain, command, route, recipient, others, summary>>
    BY DEF FundsInv, QuoteFunding, Doing
  <1>2. CASE doing' = "confirm" /\ UNCHANGED <<bumps, submitted>>
    <2>1. DOMAIN summary = {} /\ doing \notin Over /\ ~Underway /\ ~Underway'
      BY <1>1, <1>2 DEF CommandIsTyped, Over, Underway
    <2>2. Left' # {} /\ Batch' = Batch
      BY <1>1, <2>1, WalletsAreThere DEF Left, Batch
    <2>3. CommandIsTyped'
      BY <1>1, <1>2, <2>1, <2>2 DEF CommandIsTyped, Over, Underway
    <2> QED BY <1>1, <2>1, <2>3, PreparesKeeps
  <1>3. CASE Stop("aborted")
    BY <1>1, <1>3, StopKeeps DEF Over
  <1> QED BY <1>2, <1>3 DEF QuoteFunding

LEMMA PlanWalletKeeps ==
  ASSUME FundsInv, (\E base \in Bases : PlanWallet(base)) \/ EstimateRefused
  PROVE  FundsInv'
  <1> DEFINE w == CHOOSE x \in Left \ plans : \A y \in Left \ plans : x <= y
  <1>1. /\ CommandIsTyped /\ doing = "plan" /\ Left \ plans # {}
        /\ UNCHANGED <<chain, command, route, recipient, doing, bumps, submitted, others>>
    BY DEF FundsInv, PlanWallet, EstimateRefused, Doing
  <1>2. UNCHANGED summary \/ summary' = With(summary, {w}, Told("skipped", 0))
    BY DEF PlanWallet, EstimateRefused
  <1>3. w \in Left
    <2> DEFINE s == Left \ plans
    <2>1. s \in SUBSET Nat /\ s # {}
      BY <1>1, WalletsAreThere DEF Left
    <2>2. First(s) \in s
      BY <2>1, FirstIsThere
    <2>3. First(s) = w
      BY DEF First
    <2> QED BY <2>2, <2>3
  <1> HIDE DEF w
  <1>4. /\ DOMAIN summary \subseteq DOMAIN summary' /\ DOMAIN summary' \subseteq Wallets
        /\ \A v \in DOMAIN summary : summary'[v] = summary[v]
        /\ \A v \in DOMAIN summary' : v \notin DOMAIN summary => summary'[v].what = "skipped"
    <2>1. CASE UNCHANGED summary
      BY <1>1, <2>1 DEF CommandIsTyped
    <2>2. CASE summary' = With(summary, {w}, Told("skipped", 0))
      <3> DEFINE told == Told("skipped", 0)
      <3>1. told.what = "skipped"
        BY DEF Told
      <3> HIDE DEF told
      <3>2. /\ DOMAIN summary' = {w} \cup DOMAIN summary /\ summary'[w] = told
            /\ \A v \in DOMAIN summary : v # w => summary'[v] = summary[v]
        BY <2>2 DEF With, told
      <3> QED BY <1>1, <1>3, <3>1, <3>2 DEF CommandIsTyped, Left
    <2> QED BY <1>2, <2>1, <2>2
  <1>5. command = "withdraw" /\ ~Batch' /\ doing \notin Over /\ ~Underway /\ ~Underway'
    BY <1>1 DEF CommandIsTyped, Batch, Over, Underway
  <1>6. CommandIsTyped'
    BY <1>1, <1>4, <1>5 DEF CommandIsTyped
  <1> QED BY <1>1, <1>4, <1>5, <1>6, PreparesKeeps

LEMMA PlannedKeeps ==
  ASSUME FundsInv, Planned \/ Confirm
  PROVE  FundsInv'
  <1>1. /\ CommandIsTyped /\ doing \in {"plan", "confirm"}
        /\ UNCHANGED <<chain, command, route, recipient, summary, others>>
    BY DEF FundsInv, Planned, Confirm, Doing
  <1>2. CASE Stop("aborted")
    BY <1>1, <1>2, StopKeeps DEF Over
  <1>3. CASE /\ Left # {} /\ doing' \in {"confirm", "submit"}
             /\ UNCHANGED <<bumps, submitted>>
    <2>1. doing \notin Over /\ ~Underway /\ ~Underway' /\ Left' = Left /\ Batch' = Batch
      BY <1>1, <1>3 DEF Over, Underway, Left, Batch
    <2>2. CommandIsTyped'
      BY <1>1, <1>3, <2>1 DEF CommandIsTyped, Over
    <2> QED BY <1>1, <2>1, <2>2, PreparesKeeps
  <1>4. CASE Planned /\ ~Stop("aborted")
    <2>1. Left # {} /\ doing' = "confirm" /\ UNCHANGED <<bumps, submitted>>
      BY <1>4 DEF Planned
    <2> QED BY <1>3, <2>1
  <1>5. CASE Confirm
    <2>1. Left # {} /\ doing' = "submit" /\ UNCHANGED <<bumps, submitted>>
      BY <1>1, <1>5 DEF Confirm, CommandIsTyped, Doing
    <2> QED BY <1>3, <2>1
  <1> QED BY <1>2, <1>4, <1>5

(* What is left to fund costs at least the next transfer.                  *)
LEMMA NextIsRequired ==
  ASSUME CommandIsTyped, Left # {}, doing \notin Over, command = "fund", NEW base \in Bases,
         NEW held \in Nat, Required(base) <= held
  PROVE  Amount * Cardinality(Paid) + TransferGas * MaximumFee(base) <= held
  <1> DEFINE c == Cardinality(Left)
             dear == MaximumFee(base)
  <1>1. IsFiniteSet(Left)
    BY WalletsAreThere, FS_Subset DEF Left
  <1>2. c \in Nat /\ c >= 1
    BY <1>1, FS_CardinalityType, FS_EmptySet
  <1>3. dear \in Nat /\ Amount \in Nat /\ BatchGas \in Nat
    BY NativeFundsAssumption DEF MaximumFee, FeeAt
  <1>4. CASE Batch
    <2>1. Paid = Left /\ TransferGas = BatchGas
      BY <1>4, PartiesAreThere DEF TransferGas
    <2>2. c * Amount + BatchGas * dear <= held
      BY <1>4 DEF Required
    <2>3. c * Amount = Amount * c
      <3> HIDE DEF c
      <3> QED BY <1>2, <1>3
    <2> QED BY <2>1, <2>2, <2>3
  <1>5. CASE ~Batch
    <2>1. Cardinality(Paid) = 1 /\ TransferGas = 1
      BY <1>5, PartiesAreThere
    <2>2. c * Amount + c * dear <= held
      BY <1>5 DEF Required
    <2> HIDE DEF c, dear
    <2>3. 1 * Amount <= c * Amount /\ 1 * dear <= c * dear
      BY <1>2, <1>3, FewerTimes
    <2> DEFINE a == c * Amount
               d == c * dear
    <2>4. a \in Nat /\ d \in Nat
      BY <1>2, <1>3
    <2>5. a + d <= held /\ 1 * Amount <= a /\ 1 * dear <= d
      BY <2>2, <2>3
    <2> HIDE DEF a, d
    <2>6. Amount * 1 + 1 * dear <= held
      BY <1>3, <2>4, <2>5
    <2> QED BY <2>1, <2>6 DEF dear
  <1> QED BY <1>4, <1>5

(* A withdrawal that has not begun leaves nothing behind.                  *)
LEMMA GivesUpKeeps ==
  ASSUME FundsInv, doing = "submit", command = "withdraw", Tell(Told("failed", 0)),
         UNCHANGED <<chain, command, route, recipient, others>>
  PROVE  FundsInv'
  <1> DEFINE told == Told("failed", 0)
  <1>1. Tell(told) /\ told.what = "failed"
    BY DEF Told
  <1>2. /\ UNCHANGED <<nonce, coins, mined, command, route, recipient, others>> /\ ChainOK'
        /\ pool' = pool /\ doing \in {"submit", "send", "receipt"}
    BY ChainStays DEF FundsInv, chain
  <1> HIDE DEF told
  <1> QED BY <1>1, <1>2, TellKeeps

LEMMA SubmissionKeeps ==
  ASSUME FundsInv, NEW base \in Bases, FundingSubmission(base) \/ RefreshWithdrawal(base)
  PROVE  FundsInv'
  <1>1. /\ CommandIsTyped /\ doing = "submit" /\ Left # {} /\ doing \notin Over
        /\ UNCHANGED <<chain, command, route, recipient, others>>
    BY DEF FundsInv, FundingSubmission, RefreshWithdrawal, Doing, CommandIsTyped, Over
  <1>2. CASE FundingSubmission(base)
    <2>1. command = "fund" /\ Sender = Payer
      BY <1>2 DEF FundingSubmission, Sender
    <2>2. PICK view \in Views(Payer) :
            IF view.coins >= Required(base)
              THEN Submit(view, base)
              ELSE Stop("broken") /\ UNCHANGED summary
      BY <1>2 DEF FundingSubmission
    <2>3. CASE view.coins >= Required(base)
      <3>1. view.coins \in Nat
        BY <2>2, ViewsRead, WalletsAreThere DEF FundsInv
      <3>2. Required(base) <= view.coins
        <4>1. Required(base) \in Int
          <5>1. Cardinality(Left) \in Nat /\ MaximumFee(base) \in Nat
            BY WalletsAreThere, FS_Subset, FS_CardinalityType, NativeFundsAssumption
               DEF Left, MaximumFee, FeeAt
          <5> DEFINE c == Cardinality(Left)
                     dear == MaximumFee(base)
          <5>2. c \in Nat /\ dear \in Nat /\ Amount \in Nat /\ BatchGas \in Nat
            BY <5>1, NativeFundsAssumption
          <5> HIDE DEF c, dear
          <5>3. c * Amount \in Nat /\ BatchGas * dear \in Nat /\ c * dear \in Nat
            BY <5>2
          <5> DEFINE x == c * Amount
                     y == (IF Batch THEN BatchGas ELSE c) * dear
          <5>4. x \in Nat /\ y \in Nat
            BY <5>3
          <5>5. Required(base) = x + y
            BY DEF Required, c, dear
          <5> HIDE DEF x, y
          <5> QED BY <5>4, <5>5
        <4> DEFINE q == Required(base)
                   v == view.coins
        <4>2. q \in Int /\ v \in Nat /\ v >= q
          BY <2>3, <3>1, <4>1
        <4> HIDE DEF q, v
        <4>3. q <= v
          BY <4>2
        <4> QED BY <4>3 DEF q, v
      <3> DEFINE held == view.coins
      <3>3. Amount * Cardinality(Paid) + TransferGas * MaximumFee(base) <= view.coins
        BY <1>1, <2>1, <3>1, <3>2, NextIsRequired
      <3> QED BY <1>1, <2>1, <2>2, <2>3, <3>3, SubmitKeeps
    <2>4. CASE ~(view.coins >= Required(base))
      BY <1>1, <2>2, <2>4, StopKeeps DEF Over
    <2> QED BY <2>3, <2>4
  <1>3. CASE RefreshWithdrawal(base)
    <2>1. command = "withdraw" /\ Sender = NextWallet
      BY <1>3 DEF RefreshWithdrawal, Sender
    <2>2. PICK view \in Views(NextWallet) :
            IF WorthIt(view, base) THEN Submit(view, base) ELSE Tell(Told("failed", 0))
      BY <1>3 DEF RefreshWithdrawal
    <2>3. CASE WorthIt(view, base)
      <3>1. NextWallet \in Accounts
        BY <1>1, NextIsLeft, WalletsAreThere
      <3>2. view.coins \in Nat
        BY <2>2, <3>1, ViewsRead DEF FundsInv
      <3>3. MaximumFee(base) \in Nat
        BY NativeFundsAssumption DEF MaximumFee, FeeAt
      <3>4. MaximumFee(base) < view.coins
        BY <2>3, <3>2, <3>3 DEF WorthIt
      <3> QED BY <1>1, <2>1, <2>2, <2>3, <3>4, SubmitKeeps
    <2>4. CASE ~WorthIt(view, base)
      BY <1>1, <2>1, <2>2, <2>4, GivesUpKeeps
    <2> QED BY <2>3, <2>4
  <1> QED BY <1>2, <1>3

LEMMA RefusedKeeps ==
  ASSUME FundsInv, RefreshRefused
  PROVE  FundsInv'
  BY GivesUpKeeps DEF RefreshRefused, Doing

LEMMA ReceiptUncertainKeeps ==
  ASSUME FundsInv, ReceiptUncertain
  PROVE  FundsInv'
  <1>1. /\ Underway /\ Error("uncertain")
        /\ UNCHANGED <<chain, command, route, recipient, others>>
    BY DEF ReceiptUncertain, Doing, Underway
  <1> QED BY <1>1, ErrorKeeps

(* What is not being sent does not depend on what others send.             *)
LEMMA RunStays ==
  ASSUME UNCHANGED run
  PROVE  /\ UNCHANGED <<command, route, recipient, doing, sub, attempt, bumps, submitted, summary>>
         /\ Left' = Left /\ Batch' = Batch /\ Sender' = Sender /\ Paid' = Paid
         /\ TransferGas' = TransferGas /\ Underway' = Underway
         /\ (CommandIsTyped => CommandIsTyped') /\ (Begun => Begun')
  <1>1. UNCHANGED <<command, route, recipient, doing, sub, attempt, bumps, submitted, summary>>
    BY DEF run
  <1>2. /\ Left' = Left /\ Batch' = Batch /\ Sender' = Sender /\ Paid' = Paid
        /\ TransferGas' = TransferGas /\ Underway' = Underway
    BY <1>1, SameRun DEF Underway
  <1>3. CommandIsTyped => CommandIsTyped'
    BY <1>1, <1>2 DEF CommandIsTyped
  <1>4. Attempt' = Attempt
    BY <1>1, <1>2 DEF Attempt
  <1>5. Begun => Begun'
    BY <1>1, <1>4 DEF Begun
  <1> QED BY <1>1, <1>2, <1>3, <1>5

(* A block takes what a node held: an attempt of the sender, or what pays  *)
(* it.                                                                     *)
LEMMA BlockKeeps ==
  ASSUME FundsInv, NEW tx \in pool, NEW ok \in BOOLEAN, NEW paid \in 1..tx.most,
         BlockTakes(tx, ok, paid)
  PROVE  FundsInv'
  <1>1. Include(tx, ok, paid) /\ UNCHANGED <<run, others>> /\ ChainOK
    BY DEF BlockTakes, FundsInv
  <1>2. ChainOK'
    BY <1>1, IncludeKeeps
  <1>3. /\ UNCHANGED <<command, route, recipient, doing, sub, attempt, bumps, submitted, summary>>
        /\ Left' = Left /\ Batch' = Batch /\ Sender' = Sender /\ Paid' = Paid
        /\ TransferGas' = TransferGas /\ Underway' = Underway
        /\ (CommandIsTyped => CommandIsTyped') /\ (Begun => Begun')
    BY <1>1, RunStays
  <1> DEFINE new == [tx |-> tx, ok |-> ok, paid |-> paid]
  <1>4. /\ mined' = mined \cup {new} /\ new.tx = tx
        /\ pool' \subseteq pool
    BY <1>1 DEF Include
  <1> HIDE DEF new
  <1>5. \A t \in Sent' : t \in Sent
    BY <1>4 DEF Sent, Landed
  <1>6. ASSUME Underway, IsFunded PROVE IsFunded'
    <2>1. Sender \in Accounts
      <3>1. CommandIsTyped /\ Left # {} /\ doing \notin Over
        BY <1>6 DEF FundsInv, Underway, CommandIsTyped, Over
      <3> QED BY <3>1, PartiesAreThere
    <2>2. sub.nonce \in Nat /\ sub.coins \in Nat
      BY <1>6 DEF FundsInv, Begun
    <2>3. /\ nonce[Sender] \in Nat /\ coins[Sender] \in Nat
          /\ nonce'[Sender] = IF Sender = tx.from THEN nonce[Sender] + 1 ELSE nonce[Sender]
      BY <1>1, <2>1 DEF ChainOK, Include
    <2>4. Sender # tx.from => coins'[Sender] >= coins[Sender] /\ coins'[Sender] \in Nat
      <3> DEFINE credit == Credit(tx, Sender)
      <3>1. credit \in Nat
        BY <1>1, CreditIsNatural DEF ChainOK
      <3>2. Sender # tx.from => coins'[Sender] = coins[Sender] - 0 + (IF ok THEN credit ELSE 0)
        BY <1>1, <2>1 DEF Include
      <3> HIDE DEF credit
      <3> QED BY <2>3, <3>1, <3>2
    <2>5. MaximumFee(sub.base)' = MaximumFee(sub.base)
      BY <1>3 DEF MaximumFee, FeeAt
    <2>6. ASSUME Sender \notin others
          PROVE  /\ sub.nonce <= nonce'[Sender]
                 /\ nonce'[Sender] = sub.nonce => sub.coins <= coins'[Sender]
      <3>1. sub.nonce <= nonce[Sender] /\ (nonce[Sender] = sub.nonce => sub.coins <= coins[Sender])
        BY <1>6, <2>6 DEF IsFunded
      <3> QED BY <2>2, <2>3, <2>4, <3>1
    <2>7. others' = others
      BY <1>1
    <2> QED BY <1>3, <1>6, <2>5, <2>6, <2>7 DEF IsFunded
  <1>7. \A t : FundingOK(t)' <=> FundingOK(t)
    BY <1>3 DEF FundingOK
  <1>8. FundingsAreOurs' /\ OneNonceForAWallet'
    BY <1>5, <1>7 DEF FundsInv, FundingsAreOurs, OneNonceForAWallet
  <1>9. \A t : HeldOK(t)' <=> HeldOK(t)
    BY <1>1, <1>3 DEF HeldOK
  <1>10. NothingElseIsHeld'
    BY <1>4, <1>9 DEF FundsInv, NothingElseIsHeld
  <1>11. ASSUME NEW w \in DOMAIN summary PROVE ToldOK(w)'
    <2>1. ToldOK(w)
      BY DEF FundsInv, ToldIsTrue
    <2> QED BY <1>3, <1>4, <2>1 DEF ToldOK
  <1>12. ToldIsTrue'
    BY <1>3, <1>11 DEF ToldIsTrue
  <1> QED BY <1>2, <1>3, <1>6, <1>8, <1>10, <1>12 DEF FundsInv

(* Another program's transaction funds nothing, and from then on nothing   *)
(* is known of the account.                                                *)
LEMMA ForeignKeeps ==
  ASSUME FundsInv, NEW a \in Accounts, Foreign(a)
  PROVE  FundsInv'
  <1>1. PICK view \in Views(a) :
          LET tx == [what |-> "foreign", from |-> a, nonce |-> view.nonce, to |-> {},
                     value |-> 1, most |-> 1]
          IN Takes(tx) /\ pool' = pool \cup {tx}
    BY DEF Foreign
  <1> DEFINE tx == [what |-> "foreign", from |-> a, nonce |-> view.nonce, to |-> {},
                    value |-> 1, most |-> 1]
  <1>2. ChainOK /\ view.nonce \in Nat /\ view.nonce >= nonce[a]
    BY ViewsRead DEF FundsInv
  <1>3. IsTransaction(tx) /\ tx.nonce >= nonce[tx.from] /\ tx.from = a /\ tx.what = "foreign"
    BY <1>2, FS_EmptySet DEF IsTransaction
  <1>4. pool' = pool \cup {tx}
    BY <1>1
  <1> HIDE DEF tx
  <1>5. UNCHANGED <<nonce, coins, mined, run>> /\ others' = others \cup {a}
    BY DEF Foreign
  <1>6. ChainOK'
    BY <1>2, <1>3, <1>4, <1>5, TakenKeeps
  <1>7. /\ UNCHANGED <<command, route, recipient, doing, sub, attempt, bumps, submitted, summary>>
        /\ Left' = Left /\ Batch' = Batch /\ Sender' = Sender /\ Paid' = Paid
        /\ TransferGas' = TransferGas /\ Underway' = Underway
        /\ (CommandIsTyped => CommandIsTyped') /\ (Begun => Begun')
    BY <1>5, RunStays
  <1>8. \A t \in Sent' : t.what = "fund" => t \in Sent
    BY <1>3, <1>4, <1>5 DEF Sent, Landed
  <1>9. \A t : FundingOK(t)' <=> FundingOK(t)
    BY <1>7 DEF FundingOK
  <1>10. FundingsAreOurs' /\ OneNonceForAWallet'
    BY <1>8, <1>9 DEF FundsInv, FundingsAreOurs, OneNonceForAWallet
  <1>11. IsFunded => IsFunded'
    <2>1. MaximumFee(sub.base)' = MaximumFee(sub.base)
      BY <1>7 DEF MaximumFee, FeeAt
    <2> QED BY <1>5, <1>7, <2>1 DEF IsFunded
  <1>12. \A t : HeldOK(t) => HeldOK(t)'
    BY <1>5, <1>7 DEF HeldOK
  <1>13. HeldOK(tx)'
    BY <1>3, <1>5 DEF HeldOK
  <1>14. NothingElseIsHeld'
    BY <1>4, <1>12, <1>13 DEF FundsInv, NothingElseIsHeld
  <1>15. ASSUME NEW w \in DOMAIN summary PROVE ToldOK(w)'
    <2>1. ToldOK(w)
      BY DEF FundsInv, ToldIsTrue
    <2> QED BY <1>3, <1>4, <1>5, <1>7, <2>1 DEF ToldOK
  <1>16. ToldIsTrue'
    BY <1>7, <1>15 DEF ToldIsTrue
  <1> QED BY <1>6, <1>7, <1>10, <1>11, <1>14, <1>16 DEF FundsInv

LEMMA FundsStayKeeps ==
  ASSUME FundsInv, UNCHANGED fundsVars
  PROVE  FundsInv'
  <1>1. UNCHANGED chain /\ UNCHANGED run /\ UNCHANGED others
    BY DEF fundsVars
  <1>2. ChainOK' /\ Sent' = Sent /\ pool' = pool /\ mined' = mined /\ UNCHANGED <<nonce, coins>>
    BY <1>1, ChainStays DEF FundsInv, Sent, Landed, chain
  <1>3. /\ UNCHANGED <<command, route, recipient, doing, sub, attempt, bumps, submitted, summary>>
        /\ Left' = Left /\ Batch' = Batch /\ Sender' = Sender /\ Paid' = Paid
        /\ TransferGas' = TransferGas /\ Underway' = Underway
        /\ (CommandIsTyped => CommandIsTyped') /\ (Begun => Begun')
    BY <1>1, RunStays
  <1>4. IsFunded => IsFunded'
    <2>1. MaximumFee(sub.base)' = MaximumFee(sub.base)
      BY <1>3 DEF MaximumFee, FeeAt
    <2> QED BY <1>1, <1>2, <1>3, <2>1 DEF IsFunded
  <1>5. \A t : (FundingOK(t)' <=> FundingOK(t)) /\ (HeldOK(t)' <=> HeldOK(t))
    BY <1>1, <1>3 DEF FundingOK, HeldOK
  <1>6. FundingsAreOurs' /\ OneNonceForAWallet' /\ NothingElseIsHeld'
    BY <1>2, <1>5 DEF FundsInv, FundingsAreOurs, OneNonceForAWallet, NothingElseIsHeld
  <1>7. ToldIsTrue'
    BY <1>2, <1>3 DEF FundsInv, ToldIsTrue, ToldOK
  <1> QED BY <1>2, <1>3, <1>4, <1>6, <1>7 DEF FundsInv

LEMMA FundsStepKeeps ==
  ASSUME FundsInv, [FundsNext]_fundsVars
  PROVE  FundsInv'
  <1>1. CASE Program
    <2>1. ASSUME NEW base \in Bases,
                 \/ QuoteFunding(base) \/ PlanWallet(base)
                 \/ FundingSubmission(base) \/ RefreshWithdrawal(base)
          PROVE  FundsInv'
      BY <2>1, QuoteFundingKeeps, PlanWalletKeeps, SubmissionKeeps
    <2>2. CASE (\E way \in {"batch", "direct"} : StartFund(way)) \/ StartWithdraw
      BY <2>2, StartKeeps
    <2>3. CASE Planned \/ Confirm \/ Send \/ TransferReceipt \/ NoReceipt
      BY <2>3, PlannedKeeps, SendKeeps, TransferReceiptKeeps, NoReceiptKeeps
    <2> QED BY <1>1, <2>1, <2>2, <2>3 DEF Program
  <1>2. CASE Refusals
    BY <1>2, FailsKeeps, PlanWalletKeeps, RefusedKeeps, ReceiptUncertainKeeps DEF Refusals
  <1>3. CASE Outside
    BY <1>3, BlockKeeps, ForeignKeeps DEF Outside
  <1>4. CASE IsOver \/ UNCHANGED fundsVars
    BY <1>4, FundsStayKeeps DEF IsOver
  <1> QED BY <1>1, <1>2, <1>3, <1>4 DEF FundsNext

LEMMA FundsInvHolds ==
  FundsSpec => []FundsInv
  <1> QED BY InitFunds, FundsStepKeeps, PTL DEF FundsSpec

(***************************************************************************)
(* No attempt of a transfer, the last and most expensive one included, is  *)
(* refused for want of funds unless another program has spent from the     *)
(* account: --fund asks before each transfer for the value and the highest *)
(* fee of all that is left (funds.rs:745), --withdraw leaves the highest   *)
(* fee in the wallet (funds.rs:1134).                                      *)
(***************************************************************************)
THEOREM AttemptsArePaid == FundsSpec => []AttemptsAreFunded
  <1>1. ASSUME FundsInv PROVE AttemptsAreFunded
    <2> SUFFICES ASSUME Doing("send"), Sender \notin others, nonce[Sender] = sub.nonce
                 PROVE  Cost(Transaction) <= coins[Sender] /\ Transaction.value > 0
      BY DEF AttemptsAreFunded
    <2>1. Underway
      BY DEF Doing, Underway
    <2>2. /\ IsTransaction(Transaction) /\ Transaction.value > 0
          /\ Transaction.from = Sender /\ Cost(Transaction) <= sub.coins
      BY <1>1, <2>1, AttemptIsPaid
    <2>3. sub.coins <= coins[Sender] /\ sub.coins \in Nat
      BY <1>1, <2>1 DEF FundsInv, IsFunded, Begun
    <2>4. coins[Sender] \in Nat /\ Cost(Transaction) \in Nat
      BY <1>1, <2>2 DEF FundsInv, ChainOK, IsTransaction, Cost
    <2> DEFINE cost == Cost(Transaction)
    <2>5. cost <= sub.coins /\ cost \in Nat
      BY <2>2, <2>4
    <2> HIDE DEF cost
    <2>6. cost <= coins[Sender]
      BY <2>3, <2>4, <2>5
    <2> QED BY <2>2, <2>6 DEF cost
  <1> QED BY <1>1, FundsInvHolds, PTL

(* A funding pays each of its wallets the amount.                          *)
LEMMA SharesAreWhole ==
  ASSUME NEW a \in Nat, NEW c \in Nat \ {0}
  PROVE  (a * c) \div c = a
  <1> DEFINE n == a * c
  <1>1. n \in Nat /\ n = c * a
    OBVIOUS
  <1> HIDE DEF n
  <1>2. n \div c = a
    BY <1>1, Z3
  <1> QED BY <1>2 DEF n

LEMMA ShareIsTheAmount ==
  ASSUME FundsInv, NEW tx \in Sent, tx.what = "fund", NEW w \in tx.to
  PROVE  Credit(tx, w) = Amount
  <1> DEFINE c == Cardinality(tx.to)
  <1>1. IsFiniteSet(tx.to)
    BY DEF FundsInv, ChainOK, Sent, Landed, IsTransaction
  <1>2. c \in Nat \ {0}
    BY <1>1, FS_CardinalityType, FS_EmptySet
  <1>3. tx.value = Amount * c
    BY DEF FundsInv, FundingsAreOurs, FundingOK
  <1> HIDE DEF c
  <1>4. tx.value \div c = Amount
    BY <1>2, <1>3, SharesAreWhole, NativeFundsAssumption
  <1> QED BY <1>4 DEF Credit, c

(* What a wallet has received is nothing when no block funded it, and what *)
(* the one funding paid when there is one.                                 *)
Fundings == {m \in mined : m.ok /\ m.tx.what = "fund"}

LEMMA ReceivedIsTheShare ==
  ASSUME ChainOK, NEW w
  PROVE  /\ (\A m \in Fundings : w \notin m.tx.to) => Received(w) = 0
         /\ \A m \in Fundings :
              (\A n \in Fundings : w \in n.tx.to => n = m) => Received(w) = Credit(m.tx, w)
  <1> DEFINE T == Fundings
             credit == [m \in T |-> Credit(m.tx, w)]
             Solves(k) == k = [s \in SUBSET T |->
                                 IF s = {} THEN 0
                                 ELSE Credit((CHOOSE x \in s : TRUE).tx, w)
                                        + k[s \ {CHOOSE x \in s : TRUE}]]
  <1>1. IsFiniteSet(T)
    BY FS_Subset DEF Fundings, ChainOK
  <1>2. credit \in [T -> Nat]
    BY CreditIsNatural DEF Fundings, ChainOK
  <1>3. \A s \in SUBSET T : s # {} => credit[Pick(s)] = Credit(Pick(s).tx, w)
    BY Picked
  <1>4. \A m \in T : credit[m] = Credit(m.tx, w)
    OBVIOUS
  <1>5. \A m \in T : w \notin m.tx.to => credit[m] = 0
    BY DEF Credit
  <1>6. PICK k : k = [s \in SUBSET T |-> k[s]] /\ Sums(k, credit, T)
    BY <1>1, SumExists
  <1> HIDE DEF credit
  <1>7. \A s \in SUBSET T : k[s] = IF s = {} THEN 0 ELSE Credit(Pick(s).tx, w) + k[s \ {Pick(s)}]
    BY <1>3, <1>6 DEF Sums
  <1>8. Solves(k)
    BY <1>6, <1>7 DEF Pick
  <1>9. PICK n : Solves(n) /\ Received(w) = n[T]
    <2>1. Received(w) = (CHOOSE n : Solves(n))[T]
      BY DEF Received, Fundings, MapThenSumSet, MapThenFoldSet
    <2> HIDE DEF Solves
    <2> QED BY <1>8, <2>1
  <1>10. \A s \in SUBSET T : n[s] = IF s = {} THEN 0 ELSE Credit(Pick(s).tx, w) + n[s \ {Pick(s)}]
    BY <1>9 DEF Pick
  <1>11. Sums(n, credit, T)
    BY <1>3, <1>10 DEF Sums
  <1> HIDE DEF T
  <1>12. ASSUME NEW U \in SUBSET T, \A m \in U : credit[m] = 0
         PROVE  n[U] = 0
    <2> DEFINE part == [m \in U |-> 0]
    <2>1. IsFiniteSet(U) /\ part \in [U -> Nat] /\ \A m \in U : part[m] = 0
      BY <1>1, FS_Subset
    <2>2. \A s \in SUBSET U : s # {} => part[Pick(s)] = credit[Pick(s)]
      BY <1>12, Picked
    <2> HIDE DEF part
    <2>3. Sums(n, part, U)
      BY <1>11, <2>2 DEF Sums
    <2>4. n[U] \in Nat /\ n[U] <= Cardinality(U) * 0
      BY <2>1, <2>3, SumsAreNatural, SumsAreBounded
    <2>5. Cardinality(U) * 0 = 0
      BY <2>1, FS_CardinalityType
    <2> QED BY <2>4, <2>5
  <1>13. (\A m \in T : w \notin m.tx.to) => Received(w) = 0
    BY <1>5, <1>9, <1>12
  <1>14. ASSUME NEW m \in T, \A o \in T : w \in o.tx.to => o = m
         PROVE  Received(w) = Credit(m.tx, w)
    <2>1. n[T] = credit[m] + n[T \ {m}]
      BY <1>1, <1>2, <1>11, SumTakesAny
    <2>2. n[T \ {m}] = 0
      BY <1>5, <1>12, <1>14
    <2>3. credit[m] \in Nat
      BY <1>2
    <2> QED BY <1>4, <1>9, <2>1, <2>2, <2>3
  <1> QED BY <1>13, <1>14 DEF T

(* Two blocks that funded one wallet are one.                              *)
LEMMA FundedByOne ==
  ASSUME FundsInv, NEW w, NEW m \in Fundings, w \in m.tx.to
  PROVE  Received(w) = Amount
  <1>1. m.tx \in Sent /\ m \in mined /\ m.tx.what = "fund" /\ m.tx.from = Payer
    BY DEF FundsInv, FundingsAreOurs, FundingOK, Fundings, Sent, Landed
  <1>2. ASSUME NEW n \in Fundings, w \in n.tx.to PROVE n = m
    <2>1. n.tx \in Sent /\ n \in mined /\ n.tx.what = "fund" /\ n.tx.from = Payer
      BY DEF FundsInv, FundingsAreOurs, FundingOK, Fundings, Sent, Landed
    <2>2. n.tx.to \cap m.tx.to # {}
      BY <1>2
    <2>3. n.tx.nonce = m.tx.nonce
      BY <1>1, <2>1, <2>2 DEF FundsInv, OneNonceForAWallet
    <2> QED BY <1>1, <2>1, <2>3 DEF FundsInv, ChainOK
  <1>3. Received(w) = Credit(m.tx, w)
    BY <1>2, ReceivedIsTheShare DEF FundsInv
  <1> QED BY <1>1, <1>3, ShareIsTheAmount

(***************************************************************************)
(* No wallet is sent more than the amount, however often a transfer is     *)
(* retried, replaced or given up on: every attempt to pay it is signed     *)
(* under one nonce of the payer (funds.rs:827), and of those a block takes *)
(* one.                                                                    *)
(***************************************************************************)
THEOREM PaidAtMostOnce == FundsSpec => []FundedAtMostOnce
  <1>1. ASSUME FundsInv PROVE FundedAtMostOnce
    <2> SUFFICES ASSUME NEW w \in Wallets PROVE Received(w) <= Amount
      BY DEF FundedAtMostOnce
    <2>1. Amount \in Nat
      BY NativeFundsAssumption
    <2>2. CASE \A m \in Fundings : w \notin m.tx.to
      <3>1. Received(w) = 0
        BY <1>1, <2>2, ReceivedIsTheShare DEF FundsInv
      <3> QED BY <2>1, <3>1
    <2>3. CASE \E m \in Fundings : w \in m.tx.to
      <3>1. Received(w) = Amount
        BY <1>1, <2>3, FundedByOne
      <3> QED BY <2>1, <3>1
    <2> QED BY <2>2, <2>3
  <1> QED BY <1>1, FundsInvHolds, PTL

(***************************************************************************)
(* The summary is what the blocks say, though replacements of one transfer *)
(* were out at once: a receipt of any attempt uses up the nonce of all of  *)
(* them, "limited" is told only when no node took any, and what was        *)
(* withdrawn is the value of the attempt that was included, not of the one *)
(* sent last (funds.rs:871).                                               *)
(***************************************************************************)
THEOREM SummariesAreTrue == FundsSpec => []SummaryIsTrue
  <1>1. ASSUME FundsInv PROVE SummaryIsTrue
    <2> SUFFICES ASSUME NEW w \in DOMAIN summary
                 PROVE  /\ summary[w].what = "fund" => Received(w) = Amount
                        /\ summary[w].what \in {"reverted", "limited"} =>
                             Received(w) = 0 /\ ~OnTheWay(w)
                        /\ summary[w].what = "withdraw" =>
                             \E m \in mined : /\ m.ok /\ m.tx.from = w
                                              /\ m.tx.what = "withdraw"
                                              /\ m.tx.value = summary[w].value
      BY DEF SummaryIsTrue
    <2>1. ToldOK(w)
      BY <1>1 DEF FundsInv, ToldIsTrue
    <2>2. CASE summary[w].what = "fund"
      <3>1. PICK m \in Fundings : w \in m.tx.to
        BY <2>1, <2>2 DEF ToldOK, Fundings
      <3>2. Received(w) = Amount
        BY <1>1, <3>1, FundedByOne
      <3> QED BY <2>2, <3>2
    <2>3. CASE summary[w].what \in {"reverted", "limited"}
      <3>1. \A m \in Fundings : w \notin m.tx.to
        BY <2>1, <2>3 DEF ToldOK, Fundings
      <3>2. Received(w) = 0
        BY <1>1, <3>1, ReceivedIsTheShare DEF FundsInv
      <3>3. ~OnTheWay(w)
        BY <2>1, <2>3 DEF ToldOK, OnTheWay
      <3> QED BY <2>3, <3>2, <3>3
    <2>4. CASE summary[w].what = "withdraw"
      BY <2>1, <2>4 DEF ToldOK
    <2> QED BY <2>2, <2>3, <2>4
  <1> QED BY <1>1, FundsInvHolds, PTL
=============================================================================
