---------------------------- MODULE AccountChain ----------------------------
(***************************************************************************)
(* The chain as the local senders of transactions see it: accounts with a  *)
(* nonce and a balance, transactions some node still holds, transactions   *)
(* in blocks.  None of it is this repository's code; what a node may       *)
(* answer is what chain.rs and blast.rs handle.  PublicSnipe and           *)
(* NativeFunds send to it.                                                 *)
(***************************************************************************)
EXTENDS Integers, FiniteSets, FiniteSetsExt

CONSTANTS
  Accounts,  \* the accounts whose keys the program holds
  Holdings   \* what each of them holds at first

ASSUME AccountChainAssumption ==
  /\ IsFiniteSet(Accounts) /\ Accounts # {}
  /\ Holdings \in [Accounts -> Nat]

VARIABLES
  nonce,  \* transactions of each account that are in blocks
  coins,  \* what each account holds
  pool,   \* transactions some node holds and may still include
  mined   \* [tx, ok, paid] for each transaction in a block

chain == <<nonce, coins, pool, mined>>

(* What is kept of each wallet, with the same entry for all of "of".       *)
With(kept, of, entry) == [w \in of \cup DOMAIN kept |-> IF w \in of THEN entry ELSE kept[w]]

ChainInit ==
  /\ nonce = [a \in Accounts |-> 0]
  /\ coins = Holdings
  /\ pool = {} /\ mined = {}

(* A transaction pays "value" in equal shares to the accounts "to"; "most" *)
(* is its gas limit times its max fee.  The same fields are the same       *)
(* bytes: two programs may sign and send one transaction twice.            *)
Cost(tx) == tx.value + tx.most
Landed == {m.tx : m \in mined}
Succeeded == {m.tx : m \in {r \in mined : r.ok}}

(* What a node checks before it takes a transaction.  Replacing one of the *)
(* same nonce is its own choice; one that is dropped is never included.    *)
Takes(tx) == tx.nonce >= nonce[tx.from] /\ Cost(tx) <= coins[tx.from]

Credit(tx, a) == IF a \in tx.to THEN tx.value \div Cardinality(tx.to) ELSE 0

(* Inclusion: the fee is paid either way, the value only on success.       *)
Include(tx, ok, paid) ==
  /\ tx \in pool
  /\ tx.nonce = nonce[tx.from] /\ Cost(tx) <= coins[tx.from]
  /\ nonce' = [nonce EXCEPT ![tx.from] = @ + 1]
  /\ coins' = [a \in Accounts |->
       coins[a] - (IF a = tx.from THEN paid + (IF ok THEN tx.value ELSE 0) ELSE 0)
                + (IF ok THEN Credit(tx, a) ELSE 0)]
  /\ pool' = {other \in pool : other.from # tx.from \/ other.nonce # tx.nonce}
  /\ mined' = mined \cup {[tx |-> tx, ok |-> ok, paid |-> paid]}

(* eth_getTransactionCount and eth_getBalance at "pending": the node       *)
(* counts the transactions it holds in sequence; of their cost it may have *)
(* taken some off the balance, one transaction for a nonce.                *)
InSequence(a, n) ==
  \A k \in nonce[a]..(n - 1) : \E tx \in pool : tx.from = a /\ tx.nonce = k
Speculated(a, n) ==
  {s \in SUBSET {tx \in pool : tx.from = a /\ tx.nonce < n} :
     \A x, y \in s : x.nonce = y.nonce => x = y}
Views(a) ==
  UNION {{[nonce |-> n, coins |-> coins[a] - MapThenSumSet(Cost, s)] :
            s \in {t \in Speculated(a, n) : MapThenSumSet(Cost, t) <= coins[a]}} :
         n \in {k \in nonce[a]..(nonce[a] + Cardinality(pool)) : InSequence(a, k)}}

=============================================================================
