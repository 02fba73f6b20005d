---------------------------- MODULE MCUserTurn ----------------------------
(***************************************************************************)
(* A small conversation for TLC: a sentence of two words, then one of one. *)
(***************************************************************************)
EXTENDS UserTurn

MCSaid == << <<"ask", "rain">>, <<"now">> >>
=============================================================================
