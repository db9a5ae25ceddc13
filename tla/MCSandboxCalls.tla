--------------------------- MODULE MCSandboxCalls ---------------------------
(* Instances of SandboxCalls for TLC. *)
EXTENDS SandboxCalls, TLC

Limited   == [limited |-> TRUE,  precise |-> FALSE, profiled |-> FALSE]
Precise   == [limited |-> TRUE,  precise |-> TRUE,  profiled |-> TRUE]
Unlimited == [limited |-> FALSE, precise |-> FALSE, profiled |-> FALSE]
Profiled  == [limited |-> TRUE,  precise |-> FALSE, profiled |-> TRUE]

AllSettings      == {Limited, Precise, Unlimited, Profiled}
EnforcedSettings == {Limited, Precise}
LimitedOnly      == {Limited}
ProfiledOnly     == {Profiled}

Symmetry == Permutations(Machines)
=============================================================================
