------------------------- MODULE MCCandidateWindow -------------------------
(* CandidateWindow for TLC: one letter, so that inputs differ in length;   *)
(* nine candidates for one letter, of which the walk reaches eight, and    *)
(* four for two letters.                                                   *)
EXTENDS CandidateWindow

Sizes == <<9, 4>>
Narrow == [first |-> 1, tail |-> 1]
Broad == [first |-> 3, tail |-> 3]
TwoMonitors == {Narrow, Broad}
=============================================================================
