-------------------------- MODULE MCPresetLibrary --------------------------
(* Instances of PresetLibrary for TLC: one preset named by hand. *)
EXTENDS PresetLibrary, TLC

MCHandNames == {-1}
HandlerSymmetry == Permutations(Pages) \cup Permutations(Calls)
=============================================================================
