------------------------- MODULE MCExtensionParts -------------------------
(* Instances of ExtensionParts for TLC. *)
EXTENDS ExtensionParts, MCSafeGDScripts, MCCallArguments

(* Two releases of a program, with a property of each kind, one that changes   *)
(* its type, one that is declared twice, one that is refused and one too many; *)
(* and a file that is no program.                                              *)
Property(name, type, has, default) ==
  [name |-> name, type |-> type, has |-> has, default |-> default]
Accessors == {"setter", "getter"}

Release1 ==
  [accepted |-> TRUE,
   by_main  |-> <<Property("speed", "float", Accessors, "v0"),
                  Property("title", "string", {"address"}, "s0")>>,
   by_table |-> <<Property("title", "string", Accessors, "s0"),
                  Property("jump", "float", Accessors, "v0")>>]
Release2 ==
  [accepted |-> TRUE,
   by_main  |-> <<Property("title", "string", {"address"}, "s0"),
                  Property("jump", "int", Accessors, "v1")>>,
   by_table |-> <<Property("hidden", "int", {"getter"}, "v0"),
                  Property("speed", "float", Accessors, "v1")>>]
Broken == [accepted |-> FALSE, by_main |-> <<>>, by_table |-> <<>>]

TwoReleases == {Release1, Release2, Broken}

(* Every name has a hash of its own, and all buffers share one slot. *)
OwnHash == [n \in Names |-> n]
OneSlot == [b \in Buffers |-> 0]

(* All C++ scripts are built to the one program. *)
Beside == [c \in CPPScripts |-> CHOOSE e \in ELFs : TRUE]

(* The Sandboxes of ELFScripts and of ScriptInstances are the same values. *)
Symmetry == Permutations(Sandboxes) \cup Permutations(Scripts)
              \cup Permutations(Owners \ SandboxOwners)
=============================================================================
