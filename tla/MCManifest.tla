------------------------------ MODULE MCManifest ------------------------------
(* The store of one chat with two phrases, one upload and two passphrases.   *)
EXTENDS ManifestStore
CONSTANTS a, b, u
MCPhrases == {a, b}
MCUploaded == {<<u, 0>>}
=============================================================================
