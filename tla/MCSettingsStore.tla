-------------------------- MODULE MCSettingsStore ---------------------------
(* Small instances of SettingsStore.                                       *)
EXTENDS SettingsStore, TLC

Symmetry == Permutations(Stores) \cup Permutations(Keys) \cup Permutations(Values)
=============================================================================
