---------------------------- MODULE MCSponsoredGas ----------------------------
(* Three wallets, limits about a multiple of 63 and the extreme payloads.  *)
EXTENDS SponsoredGas

Limits == <<25001, 63 * 5000, 63 * 5000 + 1>>
Payloads == <<4, 16384, 100>>
=============================================================================
