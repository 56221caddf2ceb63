\* One chat, two phrases, two passphrases the operator may switch between.
CONSTANTS
  a = a
  b = b
  u = u
  Phrases <- MCPhrases
  Uploaded <- MCUploaded
  Passphrases = {p, q}
  MaxWallets = 3
  RecoveryCount = 2
SPECIFICATION StoreSpec
INVARIANTS ShownKeysSurvive
