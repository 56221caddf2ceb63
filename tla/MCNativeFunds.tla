---------------------------- MODULE MCNativeFunds ----------------------------
(***************************************************************************)
(* A payer (0) and two wallets; withdrawals go to the second wallet, or to *)
(* an account outside the manifest (9).                                    *)
(***************************************************************************)
EXTENDS NativeFunds, TLC

MCHoldings == 0 :> 14 @@ 1 :> 6 @@ 2 :> 4

=============================================================================
