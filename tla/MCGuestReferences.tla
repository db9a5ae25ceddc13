------------------------- MODULE MCGuestReferences -------------------------
(* Instances of GuestReferences for TLC. *)
EXTENDS GuestReferences, TLC

(* No argument, or one. *)
UpToOneArgument == {<<>>} \cup {<<v>> : v \in Values}

Symmetry == Permutations(Values) \cup Permutations(Addresses)
=============================================================================
