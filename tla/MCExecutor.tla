----------------------------- MODULE MCExecutor -----------------------------
(***************************************************************************)
(* Payloads 1 and 2 belong to wallet w1, 3 to w2; 3 asks for two units, 1  *)
(* has a price.  They are signed for one batch of both wallets and, w1's,  *)
(* for several batches and dispatchers; the two scenarios are explored     *)
(* side by side.                                                           *)
(***************************************************************************)
EXTENDS SponsoredMintExecutor, TLC

CONSTANTS w1, w2, d1, d2, s1

MCWalletOf == 1 :> w1 @@ 2 :> w1 @@ 3 :> w2
MCUnitsOf == 1 :> 1 @@ 2 :> 1 @@ 3 :> 2
MCValueOf == 1 :> 1 @@ 2 :> 0 @@ 3 :> 0
MCDeadlineOf == 1 :> 0 @@ 2 :> 1 @@ 3 :> 1
MCShapeOf == 1 :> "ok" @@ 2 :> "ok" @@ 3 :> "ok"

Position(s, b, i, d, op) ==
  [sponsor |-> s, batch |-> b, index |-> i, dispatcher |-> d, op |-> op]

(* One batch of both wallets, with a second entry for w1 at its end.       *)
SignedBatch ==
  {Position(s1, 1, 0, d1, 1), Position(s1, 1, 1, d1, 3), Position(s1, 1, 1, d1, 2)}

(* w1's second payload in another batch and for another dispatcher.        *)
MCSigned == SignedBatch \cup {Position(s1, 2, 0, d1, 2), Position(s1, 1, 0, d2, 2)}

(* One batch of d1, of both wallets.                                       *)
Delivering ==
  /\ world.used \subseteq {<<d1, s1, 1>>}
  /\ \A w \in Wallets : delegate[w] # d2

(* Any batches of both dispatchers for w1: a target may reenter with any.  *)
(* Nothing reaches a wallet but what it forwards, and time stands still,   *)
(* as a later time only refuses more.                                      *)
Replaying ==
  /\ \A i \in DOMAIN stack :
       stack[i].kind = "batch" => \A k \in DOMAIN stack[i].ops : stack[i].ops[k] # 3
  /\ now = 0 /\ world.minted <= 2 /\ delegate[w2] = NoDelegate
  /\ \A w \in Wallets : world.held[w] = 0 /\ world.donated[w] = 0

OneScenario == Delivering \/ Replaying

=============================================================================
