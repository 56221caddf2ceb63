----------------------------- MODULE MCOpenSea -------------------------------
(***************************************************************************)
(* Two wallets, two stages of either kind, two attempts.                   *)
(***************************************************************************)
EXTENDS OpenSeaSession, TLC

CONSTANTS w1, w2

MCWallets == <<w1, w2>>
MCQuantity == w1 :> 1 @@ w2 :> 2
MCStages == {[index |-> i, type |-> t, range |-> r, cap |-> c] :
               i \in 0..1, t \in {"PUBLIC_SALE", "SIGNED_PRESALE"},
               r \in {None, <<0, 1>>, <<1, 2>>, <<2, 2>>}, c \in {None, <<1>>}}
MCStageLists == {<<s, t>> : s, t \in MCStages}

=============================================================================
