---------------------------- MODULE MCRimeDeploy ----------------------------
(* Small instances of RimeDeploy: two schemes with a staging folder each.  *)
EXTENDS RimeDeploy, TLC

CONSTANTS Double, Plain, Fuzzy

MCKeys == {Pinyin, Double}
MCConfigs == [key : MCKeys, rules : {Plain, Fuzzy}]
MCTwoConfigs == [key : MCKeys, rules : {Plain}]

Symmetry == Permutations(Procs) \cup Permutations(Extras)
=============================================================================
