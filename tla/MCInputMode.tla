---------------------------- MODULE MCInputMode ----------------------------
(* InputMode for TLC: of the three options after the mode one stands for   *)
(* all; two services; a queue that is never full within the bounds.        *)
EXTENDS InputMode

OneOption == <<"charset">>
=============================================================================
