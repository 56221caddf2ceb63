----------------------------- MODULE MintAction ------------------------------
(***************************************************************************)
(* What opensea.rs makes of OpenSea's answers before the program uses      *)
(* them: the stages of a collection, what a wallet may still mint, and the *)
(* transaction it is offered.  Parsing of JSON, hex and dates is left out. *)
(***************************************************************************)
EXTENDS Integers, Sequences, FiniteSets, FiniteSetsExt

CONSTANTS
  Drop,      \* the collection's contract
  ChainId,   \* the chain the RPC is connected to
  Quantity   \* what each wallet is to mint

Zero == "zero"
None == << >>
Unlimited == 1000
Kinds == {"Erc721SeaDropV1", "Erc1155SeaDropV2"}
StageTypes == {"PUBLIC_SALE", "SIGNED_PRESALE", "MERKLE_PRESALE"}

-----------------------------------------------------------------------------
(* Stages: [index, type, range, cap], a range is <<from, to>> or None. *)

RangeFits(kind, s) ==
  IF kind = "Erc721SeaDropV1" THEN s.range = None
  ELSE s.range # None /\ s.range[1] <= s.range[2]

(* TouchOnly is a mutant of Overlap.                                       *)
TouchOnly(a, b) == a = None \/ b = None \/ (a[1] < b[2] /\ b[1] < a[2])
Overlap(a, b) == a = None \/ b = None \/ (a[1] <= b[2] /\ b[1] <= a[2])

(* Stages of one index are one phase over several token ranges.            *)
Siblings(s, t) == s.type = t.type /\ s.cap = t.cap /\ ~Overlap(s.range, t.range)

DecodesStages(kind, stages) ==
  /\ \A i \in DOMAIN stages : RangeFits(kind, stages[i])
  /\ \A i, j \in DOMAIN stages :
       i # j /\ stages[i].index = stages[j].index => Siblings(stages[i], stages[j])

Supports(s, token) == IF s.range = None THEN token = 0
                      ELSE token \in s.range[1]..s.range[2]
Selected(stages, index, token) ==
  {i \in DOMAIN stages : stages[i].index = index /\ Supports(stages[i], token)}

-----------------------------------------------------------------------------
(* What a wallet may mint: the first cap that is given. *)

FirstOf(caps) ==
  IF \E i \in DOMAIN caps : caps[i] # None
    THEN caps[Min({i \in DOMAIN caps : caps[i] # None})][1]
    ELSE Unlimited

(* verdict: [own, perToken, minted, linked]; a linked wallet's cap counts  *)
(* that wallet's mints, which the answer does not tell.                    *)
Available(s, verdict) ==
  LET total == FirstOf(<<verdict.own, s.cap>>)
      minted == IF verdict.linked THEN 0 ELSE verdict.minted
      each == FirstOf(<<verdict.perToken, verdict.own>>)
  IN Min({IF minted > total THEN 0 ELSE total - minted, each})

-----------------------------------------------------------------------------
(* The offered transaction: [target, chain, value] and, as far as the      *)
(* calldata can be read, [selector, nft, minter, quantity, stage].         *)

(* The classes classify_mint_action_errors puts the errors of a swap into, *)
(* the first that applies.                                                 *)
ErrorOrder == <<"ineligible", "limit", "funds", "no_trading", "no_drop", "not_open">>
ErrorOf(errors) ==
  IF \E i \in DOMAIN ErrorOrder : ErrorOrder[i] \in errors
    THEN ErrorOrder[Min({i \in DOMAIN ErrorOrder : ErrorOrder[i] \in errors})]
    ELSE "rejected"

(* AnyMinter is a mutant of CallFits.                                      *)
AnyMinter(kind, tx, w, s) ==
  kind = "Erc721SeaDropV1" =>
    /\ tx.readable /\ tx.nft = Drop /\ tx.quantity = Quantity[w] /\ tx.selector = s.type
    /\ IF s.type = "PUBLIC_SALE" THEN s.index = 0 ELSE tx.stage = s.index
(* An ERC-1155 call is not looked into.                                    *)
CallFits(kind, tx, w, s) ==
  kind = "Erc721SeaDropV1" =>
    /\ tx.readable /\ tx.nft = Drop
    /\ tx.minter \in {Zero, w}
    /\ tx.quantity = Quantity[w] /\ tx.selector = s.type
    /\ IF s.type = "PUBLIC_SALE" THEN s.index = 0 ELSE tx.stage = s.index

Validated(kind, swap, w, s) ==
  IF swap.errors # {} THEN ErrorOf(swap.errors)
  ELSE IF /\ swap.actions = <<"MintAction">> /\ Len(swap.txs) = 1
          /\ swap.txs[1].target # Zero /\ swap.txs[1].chain = ChainId
          /\ CallFits(kind, swap.txs[1], w, s)
    THEN "ok"
    ELSE "unsafe"

(* A batch is answered under one alias per wallet; the first wallet that   *)
(* does not fit refuses the batch.                                         *)
DecodedBatch(kind, answer, wallets, s) ==
  IF DOMAIN answer # DOMAIN wallets THEN "incompatible"
  ELSE LET verdict == [i \in DOMAIN wallets |-> Validated(kind, answer[i], wallets[i], s)]
           wrong == {i \in DOMAIN wallets : verdict[i] # "ok"}
       IN IF wrong = {} THEN "ok" ELSE verdict[Min(wrong)]

(* SeaDrop mints for minterIfNotPayer, or for the sender when that is zero.*)
MinterOf(tx, sender) == IF tx.minter = Zero THEN sender ELSE tx.minter

=============================================================================
