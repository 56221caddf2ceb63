------------------------ MODULE SponsoredMintPromise ------------------------
(***************************************************************************)
(* What a sponsored executor promises its wallets, without transactions,   *)
(* calls or storage: one step settles a set of signed authorizations.      *)
(***************************************************************************)
EXTENDS Integers, FiniteSetsExt

CONSTANTS
  Wallets, Dispatchers, Sponsors, BatchIds, WalletOf, UnitsOf, ValueOf, Signed

VARIABLES
  settled,    \* authorizations that were executed
  consumed,   \* batches that may never run again
  delivered,  \* units each wallet has forwarded
  paid        \* ether each wallet has spent

vars == <<settled, consumed, delivered, paid>>

Batch(a) == <<a.dispatcher, a.sponsor, a.batch>>
Of(S, w) == {a \in S : WalletOf[a.op] = w}

Init ==
  /\ settled = {}
  /\ consumed = {}
  /\ delivered = [w \in Wallets |-> 0]
  /\ paid = [w \in Wallets |-> 0]

(***************************************************************************)
(* A transaction consumes some batches and settles some of their           *)
(* authorizations.  Those it does not settle are void from then on.        *)
(***************************************************************************)
Consume(batches) ==
  /\ batches # {} /\ batches \cap consumed = {}
  /\ consumed' = consumed \cup batches

Settle(S) ==
  /\ settled' = settled \cup S
  /\ \A a, b \in S : a # b /\ Batch(a) = Batch(b) => WalletOf[a.op] # WalletOf[b.op]
  /\ delivered' =
       [w \in Wallets |-> delivered[w] + MapThenSumSet(LAMBDA a : UnitsOf[a.op], Of(S, w))]
  /\ paid' =
       [w \in Wallets |-> paid[w] + MapThenSumSet(LAMBDA a : ValueOf[a.op], Of(S, w))]

Next ==
  \E batches \in SUBSET ((Dispatchers \X Sponsors \X BatchIds) \ consumed) :
    /\ Consume(batches)
    /\ \E S \in SUBSET {a \in Signed \ settled : Batch(a) \in batches} : Settle(S)

Spec == Init /\ [][Next]_vars
=============================================================================
