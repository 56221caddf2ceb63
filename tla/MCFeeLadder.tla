----------------------------- MODULE MCFeeLadder -----------------------------
(* Small fees, so that rounding up matters, and a word small enough for    *)
(* the ladder to overflow on its way up.                                   *)
EXTENDS FeeLadder

F(max, tip) == [max |-> max, tip |-> tip]
MCManual == {F(30, 30), F(40, 0)}
=============================================================================
