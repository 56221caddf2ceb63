------------------------------ MODULE BotLimits ------------------------------
(***************************************************************************)
(* The limits of a chat's wallets that the bot and its store share.        *)
(***************************************************************************)
CONSTANTS
  MaxWallets,      \* MAX_WALLETS_PER_USER
  RecoveryCount    \* wallets a recovered manifest holds (5)

=============================================================================
