---------------------------- MODULE MCRimeSession ----------------------------
(* RimeSession for TLC. *)
EXTENDS RimeSession
=============================================================================
