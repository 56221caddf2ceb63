----------------------------- MODULE MCMultiMint -----------------------------
(* One wallet forwards to the other, in two phases.                        *)
EXTENDS MultiMint, TLC

CONSTANTS w1, w2
TwoWallets == {w1, w2}
OneEach == [w \in TwoWallets |-> 1]
Purses == (w1 :> 6) @@ (w2 :> 4)
=============================================================================
