----------------------------- MODULE MCMachine -----------------------------
(***************************************************************************)
(* Two cores give a story an instruction to wait at and one more to        *)
(* execute, and TLC tries every choice of the two.                         *)
(***************************************************************************)
EXTENDS Machine

MCCore == {"first", "second"}

MCScreen == {"initial", "redirected"}

MCSeed == {1, 2}

=============================================================================
