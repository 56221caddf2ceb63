--------------------------- MODULE MCSponsoredBatch ---------------------------
(* Any two jobs at once; the sponsor is in the manifest.                   *)
EXTENDS SponsoredBatch, TLC

CONSTANTS w1, w2, j1, j2
EitherJob == Permutations({j1, j2})
=============================================================================
