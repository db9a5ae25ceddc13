-------------------------- MODULE GuestReferences --------------------------
(***************************************************************************)
(* What a call may refer to: the Variants and the objects of the call      *)
(* states.  The two tables of a call state are emptied by the same calls   *)
(* and have nothing else in common, so that a behaviour here is one of     *)
(* either with the other at rest.                                          *)
(***************************************************************************)
EXTENDS ScopedVariants, ScopedObjects

VARIABLE table      \* the table whose operations happen

reference_vars == <<variants_vars, vars, table>>

ReferencesInit == table \in {"variants", "objects"} /\ VariantsInit /\ Init

ReferencesNext ==
  /\ UNCHANGED table
  /\ \/ table = "variants" /\ VariantsNext /\ UNCHANGED vars
     \/ table = "objects" /\ Next /\ UNCHANGED variants_vars

ReferencesSpec == ReferencesInit /\ [][ReferencesNext]_reference_vars
=============================================================================
