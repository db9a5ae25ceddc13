----------------------- MODULE MCBackgroundTranslation -----------------------
(* Instances of BackgroundTranslation for TLC. *)
EXTENDS BackgroundTranslation, TLC

Symmetry == Permutations(Loaders) \cup Permutations(Workers)
=============================================================================
