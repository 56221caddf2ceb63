---------------------------- MODULE MCPublicSnipe ----------------------------
(***************************************************************************)
(* A snipe of two wallets, and a second job: a snipe of the first wallet,  *)
(* or a sweep of both.                                                     *)
(***************************************************************************)
EXTENDS PublicSnipe, TLC

CONSTANTS e1, e2

MCHoldings == 1 :> 4 @@ 2 :> 3
MCKinds == 1 :> {"snipe"} @@ 2 :> {"snipe", "sweep"}
MCGasCosts == 1 :> {1, 2} @@ 2 :> {1}
MCSelected == 1 :> {1, 2} @@ 2 :> {1}

=============================================================================
