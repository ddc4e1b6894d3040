--------------------------- MODULE MCTextService ---------------------------
(* TextService for TLC: the configurations give the constants their values. *)
EXTENDS TextService
=============================================================================
