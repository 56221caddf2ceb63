------------------------------- MODULE MCChatBot -------------------------------
(* One chat with at most four wallets.                                         *)
EXTENDS ChatBot
=============================================================================
