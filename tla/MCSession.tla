------------------------------ MODULE MCSession ------------------------------
(* Two phases whose windows overlap or move while the session runs; one of *)
(* the windows outlasts the clock.                                         *)
EXTENDS MintSession

Window(s, e) == [starts |-> s, ends |-> e]
MCWindows == {Window(0, 2), Window(1, 9)}
=============================================================================
