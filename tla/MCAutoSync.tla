----------------------------- MODULE MCAutoSync -----------------------------
(* AutoSync for TLC; the files of the dictionaries are interchangeable.    *)
EXTENDS AutoSync, TLC

FilesAlike == Permutations(Files)
=============================================================================
